---------------------------- MODULE Spec2Model ----------------------------
(***************************************************************************)
(* A model of appinspect-worker: the APK-to-Parquet converter and its      *)
(* content store (apk_converter.py, utility.py, models.py), the ingestion  *)
(* operation convert_and_move_apk and the analysis driver analyse_apks     *)
(* (appinspect_ops.py), and the analysis recipes with their helpers and    *)
(* the criterion matcher (apk_analysis.py), the process pool that reads    *)
(* the files of a decoded APK (apk_converter.py), and the task worker with *)
(* its queues, daemon threads and RPC hub handlers (appinspect_worker.py). *)
(*                                                                         *)
(* Python strings and byte strings are sequences of one-character strings. *)
(* An optional value (None or a value) is a sequence of length 0 or 1.     *)
(***************************************************************************)
EXTENDS Integers, Sequences, FiniteSets, TLC

None == <<>>
Some(x) == <<x>>

(***************************************************************************)
(* Bounds of the model.                                                    *)
(***************************************************************************)
\* Number of callers that may each make one ingestion / commit call.
NumCallers == 2
\* Longest file content (in bytes) the classifier is run on.
MaxContentLen == 2
\* Longest criterion list handed to the matcher.
MaxCriteria == 3
\* Longest tracker list handed to the catalog reductions.
MaxTrackers == 3
\* Most segments of a relative path handed to the path helpers.
MaxSegments == 3
\* Most rows of a grouped DataFrame handed to get_result_obj.
MaxGroups == 3
\* Largest limit handed to get_result_obj (the smallest is -1).
MaxLimit == 4

(***************************************************************************)
(* Strings: case folding, splitting, containment.                          *)
(***************************************************************************)
\* str.lower() on one character, for the letters the model uses.
LowerChar(c) ==
    CASE c = "A" -> "a"
      [] c = "B" -> "b"
      [] c = "C" -> "c"
      [] c = "D" -> "d"
      [] c = "E" -> "e"
      [] c = "F" -> "f"
      [] c = "G" -> "g"
      [] c = "H" -> "h"
      [] c = "I" -> "i"
      [] c = "J" -> "j"
      [] c = "K" -> "k"
      [] c = "L" -> "l"
      [] c = "M" -> "m"
      [] c = "N" -> "n"
      [] c = "O" -> "o"
      [] c = "P" -> "p"
      [] c = "Q" -> "q"
      [] c = "R" -> "r"
      [] c = "S" -> "s"
      [] c = "T" -> "t"
      [] c = "U" -> "u"
      [] c = "V" -> "v"
      [] c = "W" -> "w"
      [] c = "X" -> "x"
      [] c = "Y" -> "y"
      [] c = "Z" -> "z"
      [] OTHER -> c

\* str.lower()
Lower(s) == [i \in 1..Len(s) |-> LowerChar(s[i])]

\* Index of the first occurrence of sep in s, 0 when there is none.
FirstIndexOf(s, sep) ==
    LET idx == {i \in 1..(Len(s) - Len(sep) + 1) : SubSeq(s, i, i + Len(sep) - 1) = sep}
    IN  IF idx = {} THEN 0 ELSE CHOOSE i \in idx : \A j \in idx : i <= j

\* s.split(sep)[-1]: the piece after the last separator of a left-to-right
\* scan (all of s when sep does not occur).
RECURSIVE SplitLast(_, _)
SplitLast(s, sep) ==
    LET i == FirstIndexOf(s, sep)
    IN  IF i = 0 THEN s ELSE SplitLast(SubSeq(s, i + Len(sep), Len(s)), sep)

\* Python's `needle in haystack` for strings.
Contains(haystack, needle) ==
    \E i \in 0..(Len(haystack) - Len(needle)) :
        SubSeq(haystack, i + 1, i + Len(needle)) = needle


(***************************************************************************)
(* The data models (models.py).                                            *)
(***************************************************************************)
\* dataclasses.fields(ApkBasicInfo)
ApkBasicInfoFields == {"app_id", "version_code", "version_name", "apk_sha256"}

\* dataclasses.fields(ApkContentFileInfo)
ApkContentFileInfoFields ==
    {"relative_path", "filename", "extension", "content_text", "content_blob",
     "content_mode", "file_sha256"}

(***************************************************************************)
(* Hasher / classifier: APKConverter.read_apk_content_file.                *)
(***************************************************************************)
\* self.ext_store_as_text
ext_store_as_text ==
    { <<"s","m","a","l","i">>, <<"j","s","o","n">>, <<"x","m","l">>, <<"t","x","t">>,
      <<"l","o","g">>, <<"h","t","m","l">>, <<"h","t","m">>, <<"j","s">>,
      <<"c","s","s">>, <<"y","a","m","l">>, <<"y","m","l">>, <<"c","s","v">> }

\* The bytes a file may hold: a letter, carriage return, line feed, and a
\* byte that is not valid in the text encoding.
ByteValues == {"a", "CR", "LF", "xFF"}

\* hashlib.sha256(b).hexdigest(), as an injective function of the bytes.
Sha256(b) == <<"sha256", b>>

\* Universal-newline translation of a text-mode read: CR LF and a lone CR
\* are read as LF.  The bytes are translated in two halves, cut where no
\* CR LF pair is parted.
RECURSIVE UniversalNewlines(_)
UniversalNewlines(b) ==
    IF Len(b) <= 2
    THEN IF b = <<"CR", "LF">> THEN <<"LF">>
         ELSE [i \in 1..Len(b) |-> IF b[i] = "CR" THEN "LF" ELSE b[i]]
    ELSE LET half == Len(b) \div 2
             cut == IF b[half] = "CR" /\ b[half + 1] = "LF" THEN half + 1 ELSE half
         IN  UniversalNewlines(SubSeq(b, 1, cut))
                 \o UniversalNewlines(SubSeq(b, cut + 1, Len(b)))

\* open(filename, "r").read(): the decoded text, or UnicodeDecodeError.
ReadText(b) ==
    IF \E i \in 1..Len(b) : b[i] = "xFF"
    THEN [raised |-> TRUE, exc |-> "UnicodeDecodeError", text |-> <<>>]
    ELSE [raised |-> FALSE, exc |-> "", text |-> UniversalNewlines(b)]

\* A mutant: the extension is compared without case folding.
ExtStoredAsTextLiteral(ext) == ext \in ext_store_as_text

\* Whether the extension test of line 92 sends the file to the text read.
ExtStoredAsText(ext) == Lower(ext) \in ext_store_as_text

\* The hash of line 84 is taken from the raw bytes.
FileHash(b) == Sha256(b)

\* A mutant: no exception is caught.
CatchesNothing(exc) == FALSE

\* The except clause of line 97 catches the decode error only.
Catches(exc) == exc = "UnicodeDecodeError"

\* read_apk_content_file(filename, apk_path), the file holding `bytes`.
\* raised: an exception leaves the function; value: the ApkContentFileInfo.
ReadApkContentFile(filename, apk_path, bytes) ==
    LET relative_path == SplitLast(filename, apk_path)
        base_filename == SplitLast(relative_path, <<"/">>)
        base_filename_ext == SplitLast(base_filename, <<".">>)
        file_hash == FileHash(bytes)
        tryText == ExtStoredAsText(base_filename_ext)
        rd == ReadText(bytes)
        asText == tryText /\ ~rd.raised
        file_obj == [relative_path |-> relative_path,
                     filename |-> base_filename,
                     extension |-> base_filename_ext,
                     content_text |-> IF asText THEN Some(rd.text) ELSE None,
                     content_blob |-> IF asText THEN None ELSE Some(bytes),
                     content_mode |-> IF asText THEN "text" ELSE "blob",
                     file_sha256 |-> file_hash]
    IN  IF tryText /\ rd.raised /\ ~Catches(rd.exc)
        THEN [raised |-> TRUE, value |-> None]
        ELSE [raised |-> FALSE, value |-> Some(file_obj)]


(***************************************************************************)
(* The content store: one partition tree per app_id under the Parquet base *)
(* path.  A partition holds the batches written by write_to_dataset, each  *)
(* a sequence of rows, and the column names of its stored schema.          *)
(***************************************************************************)
AppIds == {"com.a", "com.b"}

\* Whole-package fingerprints (sha256 of the APK file).
ApkHashes == {"h1", "h2"}

AllFields == ApkBasicInfoFields \cup ApkContentFileInfoFields

\* A partition whose directory does not exist.
Absent == [exists |-> FALSE, columns |-> {}, batches |-> <<>>]

\* "/AndroidManifest.xml"
ManifestPath ==
    <<"/","A","n","d","r","o","i","d","M","a","n","i","f","e","s","t",".","x","m","l">>

\* "/c.dex"
DexPath == <<"/","c",".","d","e","x">>

\* The directory an APK is extracted to ("/x"), and the files found under
\* the extraction root of the APK with hash h: (full filename, bytes).
ExtractedRoot == <<"/","x">>

ExtractedFiles(h) ==
    IF h = "h1"
    THEN << [filename |-> ExtractedRoot \o ManifestPath, bytes |-> <<"a">>],
            [filename |-> ExtractedRoot \o DexPath, bytes |-> <<"xFF">>] >>
    ELSE << [filename |-> ExtractedRoot \o ManifestPath, bytes |-> <<"xFF", "a">>] >>

\* get_apk_basicinfo: the descriptor read from the manifest of the APK with
\* hash h (the hash is set by the caller, ops line 137 / converter line 33).
ApkBasicInfo(app, h) ==
    [app_id |-> app,
     version_code |-> IF h = "h1" THEN 1 ELSE 2,
     version_name |-> IF h = "h1" THEN "1.0" ELSE "2.0",
     apk_sha256 |-> h]

\* get_apk_content_file_list: read_apk_content_file over every file of the
\* walk, in the order of the walk (Pool.starmap keeps the order).
GetApkContentFileList(apk_path, files) ==
    [i \in 1..Len(files) |-> ReadApkContentFile(files[i].filename, apk_path, files[i].bytes)]

\* write_as_parquet line 147: one row per content file, the descriptor's
\* fields merged with the file's.
ContentTable(apk_basicinfo, content_file_list) ==
    [i \in 1..Len(content_file_list) |->
        [app_id |-> apk_basicinfo.app_id,
         version_code |-> apk_basicinfo.version_code,
         version_name |-> apk_basicinfo.version_name,
         apk_sha256 |-> apk_basicinfo.apk_sha256,
         relative_path |-> content_file_list[i].relative_path,
         filename |-> content_file_list[i].filename,
         extension |-> content_file_list[i].extension,
         content_text |-> content_file_list[i].content_text,
         content_blob |-> content_file_list[i].content_blob,
         content_mode |-> content_file_list[i].content_mode,
         file_sha256 |-> content_file_list[i].file_sha256]]

\* The record lists a direct caller of write_as_parquet hands over.
RecordLists ==
    { [i \in 1..Len(ExtractedFiles(h)) |->
          GetApkContentFileList(ExtractedRoot, ExtractedFiles(h))[i].value[1]] : h \in ApkHashes }

\* pyarrow.parquet.read_table(path): all rows of the partition.
RECURSIVE Flatten(_)
Flatten(batches) ==
    IF batches = <<>> THEN <<>> ELSE Head(batches) \o Flatten(Tail(batches))

ReadTable(partition) == Flatten(partition.batches)

\* validate_apk_content_table: every field of both data models is a column.
ValidateApkContentTable(partition) ==
    /\ \A f \in ApkBasicInfoFields : f \in partition.columns
    /\ \A f \in ApkContentFileInfoFields : f \in partition.columns

\* A mutant: the duplicate scan finds nothing.
ApkSha256ExistsNever(partition, apk_hash_sha256) == FALSE

\* apk_sha256_exists: some row of the table has the hash in apk_sha256.
ApkSha256Exists(partition, apk_hash_sha256) ==
    \E i \in 1..Len(ReadTable(partition)) :
        ReadTable(partition)[i].apk_sha256 = apk_hash_sha256

\* A partition written by an earlier release whose rows lack the
\* file_sha256 column; it holds the manifest row of the package with hash h.
LegacyPartition(app, h) ==
    [exists |-> TRUE,
     columns |-> AllFields \ {"file_sha256"},
     batches |->
        LET row == ContentTable(ApkBasicInfo(app, h),
                       <<GetApkContentFileList(ExtractedRoot, ExtractedFiles(h))[1].value[1]>>)[1]
        IN  << << [f \in (DOMAIN row) \ {"file_sha256"} |-> row[f]] >> >>]


(***************************************************************************)
(* Criterion matcher: identify_matching_criterion (apk_analysis.py lines   *)
(* 406-425).  re.compile / search are modelled for the patterns built from *)
(* letters, "=", ".", "*" and the backslash.                               *)
(***************************************************************************)
\* regex_signs (line 409)
regex_signs ==
    { <<"*">>, <<".", ".">>, <<"\\">>, <<"?">>, <<"{">>, <<"}">>, <<"[">>, <<"]">>,
      <<"+">>, <<"^">>, <<"$">>, <<"=">>, <<">">>, <<"!">>, <<"&">> }

\* criterion.replace(".", "\.")
RECURSIVE EscapeDots(_)
EscapeDots(s) ==
    IF s = <<>> THEN <<>>
    ELSE IF s[1] = "." THEN <<"\\", ".">> \o EscapeDots(Tail(s))
    ELSE <<s[1]>> \o EscapeDots(Tail(s))

\* re.compile(pattern): the pattern as a sequence of items, each one atom
\* (a literal character, or "any" for an unescaped dot) that may carry a
\* star; or re.error for a star with nothing to repeat, a repeated star,
\* or a backslash that ends the pattern.
RECURSIVE CompileFrom(_, _)
CompileFrom(pattern, items) ==
    IF pattern = <<>> THEN [error |-> FALSE, items |-> items]
    ELSE IF pattern[1] = "\\"
         THEN IF Len(pattern) < 2 THEN [error |-> TRUE, items |-> <<>>]
              ELSE CompileFrom(SubSeq(pattern, 3, Len(pattern)),
                               Append(items, [kind |-> "lit", ch |-> pattern[2], star |-> FALSE]))
    ELSE IF pattern[1] = "*"
         THEN IF items = <<>> \/ items[Len(items)].star THEN [error |-> TRUE, items |-> <<>>]
              ELSE CompileFrom(Tail(pattern), [items EXCEPT ![Len(items)].star = TRUE])
    ELSE IF pattern[1] = "."
         THEN CompileFrom(Tail(pattern), Append(items, [kind |-> "any", ch |-> ".", star |-> FALSE]))
    ELSE CompileFrom(Tail(pattern), Append(items, [kind |-> "lit", ch |-> pattern[1], star |-> FALSE]))

ReCompile(pattern) == CompileFrom(pattern, <<>>)

\* Whether the atom of an item matches one character.
AtomMatches(item, ch) == IF item.kind = "any" THEN ch # "LF" ELSE item.ch = ch

\* Whether items k.. match line from position j on.
RECURSIVE MatchAt(_, _, _, _)
MatchAt(items, k, line, j) ==
    IF k > Len(items) THEN TRUE
    ELSE IF items[k].star
         THEN \E n \in 0..(Len(line) - j + 1) :
                 /\ \A q \in j..(j + n - 1) : AtomMatches(items[k], line[q])
                 /\ MatchAt(items, k + 1, line, j + n)
         ELSE /\ j <= Len(line)
              /\ AtomMatches(items[k], line[j])
              /\ MatchAt(items, k + 1, line, j + 1)

\* matcher.search(line) is not None: an unanchored search.
ReSearch(items, line) == \E j \in 1..(Len(line) + 1) : MatchAt(items, 1, line, j)

\* Lines 414-418.
CriterionIsRegex(criterion) == \E sign \in regex_signs : Contains(criterion, sign)

\* A mutant: the pattern is compiled without escaping its dots.
TestCriterionUnescaped(line, criterion) ==
    IF CriterionIsRegex(criterion)
    THEN LET compiled == ReCompile(criterion)
         IN  IF compiled.error THEN "error"
             ELSE IF ReSearch(compiled.items, line) THEN "match" ELSE "no match"
    ELSE IF Contains(line, criterion) THEN "match" ELSE "no match"

\* Lines 419-424 for one (folded) criterion: "match", "no match", or
\* "error" when re.compile raises.
TestCriterion(line, criterion) ==
    IF CriterionIsRegex(criterion)
    THEN LET compiled == ReCompile(EscapeDots(criterion))
         IN  IF compiled.error THEN "error"
             ELSE IF ReSearch(compiled.items, line) THEN "match" ELSE "no match"
    ELSE IF Contains(line, criterion) THEN "match" ELSE "no match"

\* Lines 411-413: the criterion as tested.
FoldCriterion(criterion, case_insensitive) ==
    IF case_insensitive THEN Lower(criterion) ELSE criterion

\* A mutant: the folded criterion is returned.
ReturnFolded(criterion_in_original_case, criterion) == criterion

\* Lines 422 and 424 return criterion_in_original_case.
ReturnedCriterion(criterion_in_original_case, criterion) == criterion_in_original_case

\* The loop of lines 410-425 from index i on.
RECURSIVE IdentifyFrom(_, _, _, _)
IdentifyFrom(line, criterion_list, i, case_insensitive) ==
    IF i > Len(criterion_list) THEN [status |-> "returned", value |-> None]
    ELSE LET criterion == FoldCriterion(criterion_list[i], case_insensitive)
             test == TestCriterion(line, criterion)
         IN  IF test = "error" THEN [status |-> "raised", value |-> None]
             ELSE IF test = "match"
                  THEN [status |-> "returned",
                        value |-> Some(ReturnedCriterion(criterion_list[i], criterion))]
                  ELSE IdentifyFrom(line, criterion_list, i + 1, case_insensitive)

\* A mutant: the list is walked from its end, so the last match wins.
Reverse(s) == [i \in 1..Len(s) |-> s[Len(s) + 1 - i]]
IdentifyLastMatch(line, criterion_list, case_insensitive) ==
    IdentifyFrom(IF case_insensitive THEN Lower(line) ELSE line,
                 Reverse(criterion_list), 1, case_insensitive)

\* identify_matching_criterion(line, criterion_list, case_insensitive)
IdentifyMatchingCriterion(line, criterion_list, case_insensitive) ==
    IdentifyFrom(IF case_insensitive THEN Lower(line) ELSE line,
                 criterion_list, 1, case_insensitive)


(***************************************************************************)
(* Catalog reduction: get_domain_to_tracker_map and                        *)
(* get_classname_to_tracker_map (apk_analysis.py lines 369-385).  A dict   *)
(* is the sequence of its items in insertion order.                        *)
(***************************************************************************)
\* itertools.chain.from_iterable(lists)
RECURSIVE ChainFromIterable(_)
ChainFromIterable(lists) ==
    IF lists = <<>> THEN <<>> ELSE Head(lists) \o ChainFromIterable(Tail(lists))

\* key in d.keys()
DictHasKey(d, key) == \E i \in 1..Len(d) : d[i].key = key

\* d[key], for a key of d
DictGet(d, key) == d[CHOOSE i \in 1..Len(d) : d[i].key = key].value

\* list(d.keys())
DictKeys(d) == [i \in 1..Len(d) |-> d[i].key]

\* A mutant: the assignment is made whether or not the key is present.
DictSetAlways(d, key, value) ==
    IF DictHasKey(d, key)
    THEN [i \in 1..Len(d) |-> IF d[i].key = key THEN [key |-> key, value |-> value] ELSE d[i]]
    ELSE Append(d, [key |-> key, value |-> value])

\* Lines 374-375 (and 383-384): the assignment guarded by `not in`.
DictSetIfAbsent(d, key, value) ==
    IF DictHasKey(d, key) THEN d ELSE Append(d, [key |-> key, value |-> value])

\* The loops of lines 373-375 and 382-384 over the (key, tracker_name) items.
RECURSIVE FoldItems(_, _)
FoldItems(items, d) ==
    IF items = <<>> THEN d
    ELSE FoldItems(Tail(items), DictSetIfAbsent(d, Head(items).key, Head(items).tracker_name))

\* The trackers kept by the comprehension's `if len(...) > 0`.
RECURSIVE SelectWith(_, _)
SelectWith(tracker_list, field) ==
    IF tracker_list = <<>> THEN <<>>
    ELSE (IF Len(Head(tracker_list)[field]) > 0 THEN <<Head(tracker_list)>> ELSE <<>>)
            \o SelectWith(Tail(tracker_list), field)

\* Lines 370-371 (379-380): one item per key of each tracker, in order.
KeyItems(tracker_list, field) ==
    LET kept == SelectWith(tracker_list, field)
    IN  ChainFromIterable(
            [t \in 1..Len(kept) |->
                [k \in 1..Len(kept[t][field]) |->
                    [key |-> kept[t][field][k], tracker_name |-> kept[t].name]]])

\* get_domain_to_tracker_map(tracker_list)
GetDomainToTrackerMap(tracker_list) == FoldItems(KeyItems(tracker_list, "domain_names"), <<>>)

\* get_classname_to_tracker_map(tracker_list)
GetClassnameToTrackerMap(tracker_list) ==
    FoldItems(KeyItems(tracker_list, "class_signatures"), <<>>)


(***************************************************************************)
(* Path helpers of the analysis: get_class_full_name and                   *)
(* infer_developer_from_packagename (apk_analysis.py lines 388-403).       *)
(***************************************************************************)
\* s.split(sep): the pieces between the occurrences of sep, left to right.
RECURSIVE Split(_, _)
Split(s, sep) ==
    LET i == FirstIndexOf(s, sep)
    IN  IF i = 0 THEN <<s>>
        ELSE <<SubSeq(s, 1, i - 1)>> \o Split(SubSeq(s, i + Len(sep), Len(s)), sep)

\* s.replace(old, ""): every occurrence of old is removed, left to right.
RECURSIVE RemoveAll(_, _)
RemoveAll(s, old) ==
    LET i == FirstIndexOf(s, old)
    IN  IF i = 0 THEN s
        ELSE SubSeq(s, 1, i - 1) \o RemoveAll(SubSeq(s, i + Len(old), Len(s)), old)

\* sep.join(segments)
RECURSIVE Join(_, _)
Join(segments, sep) ==
    IF segments = <<>> THEN <<>>
    ELSE IF Len(segments) = 1 THEN segments[1]
    ELSE segments[1] \o sep \o Join(Tail(segments), sep)

\* ".smali"
SmaliSuffix == <<".", "s", "m", "a", "l", "i">>

\* get_class_full_name(package_relative_path)
GetClassFullName(package_relative_path) ==
    LET nonempty == SelectSeq(Split(package_relative_path, <<"/">>), LAMBDA seg : Len(seg) > 0)
        segments == IF nonempty = <<>> THEN <<>> ELSE Tail(nonempty)
    IN  IF Len(segments) <= 0 THEN None
        ELSE Some(Join([segments EXCEPT ![Len(segments)] = RemoveAll(@, SmaliSuffix)], <<".">>))

\* original_tlds (line 397)
original_tlds ==
    { <<"c","o","m">>, <<"o","r","g">>, <<"n","e","t">>, <<"i","n","t">>,
      <<"e","d","u">>, <<"g","o","v">>, <<"m","i","l">> }

\* A mutant: the label itself is returned, not the segment after it.
RECURSIVE InferFromOffByOne(_, _)
InferFromOffByOne(segments, i) ==
    IF i > Len(segments) - 1 THEN None
    ELSE IF segments[i] \in original_tlds THEN Some(segments[i])
    ELSE InferFromOffByOne(segments, i + 1)

\* The loop of lines 399-402 from (1-based) index i on; range(0, len - 1)
\* stops before the last segment.
RECURSIVE InferFrom(_, _)
InferFrom(segments, i) ==
    IF i > Len(segments) - 1 THEN None
    ELSE IF segments[i] \in original_tlds THEN Some(segments[i + 1])
    ELSE InferFrom(segments, i + 1)

\* infer_developer_from_packagename(package_relative_path)
InferDeveloperFromPackagename(package_relative_path) ==
    InferFrom(Split(package_relative_path, <<"/">>), 1)


(***************************************************************************)
(* Materializing a result: get_result_obj (apk_analysis.py lines 260-267). *)
(* A DataFrame is the sequence of its rows in the order the engine gives   *)
(* them.                                                                   *)
(***************************************************************************)
\* df.limit(n): the first n rows, all of them when there are fewer.
DfLimit(df, n) == SubSeq(df, 1, IF n < Len(df) THEN n ELSE Len(df))

\* A mutant: total counts the rows before the limit.
GetResultObjTotalBeforeLimit(df, limit) ==
    LET limited == IF limit > 0 THEN DfLimit(df, limit) ELSE df
    IN  [total |-> Len(df), output_limit |-> limit, records |-> Some(limited)]

\* get_result_obj(df, limit)
GetResultObj(df, limit) ==
    LET limited == IF limit > 0 THEN DfLimit(df, limit) ELSE df
        records == limited
    IN  [total |-> Len(records), output_limit |-> limit, records |-> Some(records)]

\* APKAnalysisResult(): the defaults of lines 22-26.
EmptyAnalysisResult == [total |-> 0, output_limit |-> 0, records |-> None]


(***************************************************************************)
(* The DataFrame steps the recipes share (apk_analysis.py lines 270-358).  *)
(* A row is a record of its columns; a column that can hold null           *)
(* (content_text, content_blob and the columns computed by a function      *)
(* that may return None) holds None or Some(value).                        *)
(***************************************************************************)
\* The columns that can hold null.
NullableColumns ==
    {"content_text", "content_blob", "class_name", "inferred_developer",
     "matching_classname", "matching_domain"}

\* The value of a column of a row as an aggregate sees it: nothing for null.
Cell(row, column) == IF column \in NullableColumns THEN row[column] ELSE <<row[column]>>

\* df.withColumn(name, value) on one row.
WithColumn(row, name, value) ==
    [c \in (DOMAIN row) \cup {name} |-> IF c = name THEN value ELSE row[c]]

\* Whether the directory <basename>/content_mode=text exists: a partition
\* of the Parquet base path that holds a row written in text mode.
HasTextPartition(partition) ==
    /\ partition.exists
    /\ \E i \in 1..Len(ReadTable(partition)) : ReadTable(partition)[i].content_mode = "text"

\* The base names under the Parquet base path, in the order a listing gives.
StoreListing == <<"com.a", "com.b">>

\* The directories one element of parquet_list names: "*" is a glob over the
\* base path, any other base name is a single directory.
PathsOf(st, basename) ==
    IF basename = "*"
    THEN SelectSeq(StoreListing, LAMBDA a : HasTextPartition(st[a]))
    ELSE IF basename \in DOMAIN st /\ HasTextPartition(st[basename]) THEN <<basename>> ELSE <<>>

\* The rows of the text partition of one base name.
TextRows(partition) == SelectSeq(ReadTable(partition), LAMBDA row : row.content_mode = "text")

\* read_parquets(parquet_basenames, "content_mode=text"): spark.read.parquet
\* over the paths; a path that names no directory raises AnalysisException,
\* and so does an empty list of paths.
ReadParquets(st, parquet_basenames) ==
    LET paths == [i \in 1..Len(parquet_basenames) |-> PathsOf(st, parquet_basenames[i])]
    IN  IF parquet_basenames = <<>> \/ \E i \in 1..Len(paths) : paths[i] = <<>>
        THEN [raised |-> TRUE, exc |-> "AnalysisException", df |-> <<>>]
        ELSE [raised |-> FALSE, exc |-> "",
              df |-> ChainFromIterable(
                         [i \in 1..Len(paths) |->
                             ChainFromIterable(
                                 [k \in 1..Len(paths[i]) |-> TextRows(st[paths[i][k]])])])]

\* A mutant: the read consumes the partitions it reads.
StoreAfterReadConsumed(st, parquet_basenames) ==
    [a \in DOMAIN st |->
        IF \E i \in 1..Len(parquet_basenames) : parquet_basenames[i] \in {"*", a}
        THEN Absent ELSE st[a]]

\* The store after read_parquets and the steps that follow it: reading
\* writes nothing under the Parquet base path.
StoreAfterRead(st, parquet_basenames) == st

\* split_text_content_into_lines: one row per line of content_text.
SplitTextContentIntoLines(df) ==
    ChainFromIterable(
        [i \in 1..Len(df) |->
            LET lines == Split(df[i].content_text[1], <<"LF">>)
            IN  [k \in 1..Len(lines) |-> WithColumn(df[i], "line", lines[k])]])

\* The comparison of filter_by_text_containing, filter_by_line_text_containing
\* and filter_by_path_containing.
ContainsText(value, text, case_sensitive) ==
    IF case_sensitive THEN Contains(value, text) ELSE Contains(Lower(value), Lower(text))

\* filter_by_text_containing
FilterByTextContaining(df, text, case_sensitive) ==
    SelectSeq(df, LAMBDA row : ContainsText(row.content_text[1], text, case_sensitive))

\* filter_by_line_text_containing
FilterByLineTextContaining(df, text, case_sensitive) ==
    SelectSeq(df, LAMBDA row : ContainsText(row.line, text, case_sensitive))

\* filter_by_path_containing
FilterByPathContaining(df, name, case_sensitive) ==
    SelectSeq(df, LAMBDA row : ContainsText(row.relative_path, name, case_sensitive))

\* name.replace(".", os.path.sep)
DotsToSeparators(name) == [i \in 1..Len(name) |-> IF name[i] = "." THEN "/" ELSE name[i]]

\* filter_by_classname_containing
FilterByClassnameContaining(df, name, case_sensitive) ==
    FilterByPathContaining(df, DotsToSeparators(name), case_sensitive)

\* filter_by_extension(df, extensions), case_sensitive left at False.
FilterByExtension(df, extensions) ==
    IF Len(extensions) <= 0 THEN df
    ELSE SelectSeq(df, LAMBDA row :
             \E i \in 1..Len(extensions) : Lower(row.extension) = Lower(extensions[i]))

\* A mutant: a row is kept when it holds any one of the terms.
FilterByAnyTerm(df, terms, case_sensitive, on_lines) ==
    IF terms = <<>> THEN df
    ELSE SelectSeq(df, LAMBDA row :
             \E t \in 1..Len(terms) :
                 ContainsText(IF on_lines THEN row.line ELSE row.content_text[1],
                              terms[t], case_sensitive))

\* The filter of a list of terms, one after the other (the loops of lines
\* 198-199, 231-232 and 236-237).
RECURSIVE FilterByTerms(_, _, _, _)
FilterByTerms(df, terms, case_sensitive, on_lines) ==
    IF terms = <<>> THEN df
    ELSE FilterByTerms(
             IF on_lines THEN FilterByLineTextContaining(df, Head(terms), case_sensitive)
             ELSE FilterByTextContaining(df, Head(terms), case_sensitive),
             Tail(terms), case_sensitive, on_lines)

\* add_column_inferred_developer
AddColumnInferredDeveloper(df) ==
    [i \in 1..Len(df) |->
        WithColumn(df[i], "inferred_developer", InferDeveloperFromPackagename(df[i].relative_path))]

\* add_column_class_name
AddColumnClassName(df) ==
    [i \in 1..Len(df) |-> WithColumn(df[i], "class_name", GetClassFullName(df[i].relative_path))]

\* sfunc.collect_list(column): the non-null values, row after row.
CollectList(rows, column) == ChainFromIterable([i \in 1..Len(rows) |-> Cell(rows[i], column)])

\* sfunc.collect_set(column): the distinct non-null values.
CollectSet(rows, column) ==
    {Cell(rows[i], column)[1] : i \in {j \in 1..Len(rows) : Cell(rows[j], column) # <<>>}}

\* One aggregator applied to the rows of a group.
Aggregate(rows, aggregator) ==
    IF aggregator.func = "collect_list" THEN CollectList(rows, aggregator.column)
    ELSE CollectSet(rows, aggregator.column)

\* get_aggregator_func_inferred_developers
AggregatorInferredDevelopers ==
    [func |-> "collect_set", column |-> "inferred_developer", alias |-> "inferred_developers"]

\* get_aggregator_func_class_names_list
AggregatorClassNamesList ==
    [func |-> "collect_list", column |-> "class_name", alias |-> "classes"]

\* get_aggregator_func_relative_paths
AggregatorRelativePaths ==
    [func |-> "collect_set", column |-> "relative_path", alias |-> "paths"]

\* get_aggregator_func_lines
AggregatorLines == [func |-> "collect_list", column |-> "line", alias |-> "lines"]

\* The elements of a sequence without repetition, each where it first occurs.
RECURSIVE Distinct(_)
Distinct(s) ==
    IF s = <<>> THEN <<>>
    ELSE <<Head(s)>> \o Distinct(SelectSeq(Tail(s), LAMBDA x : x # Head(s)))

\* The columns of groupBy (line 336).
GroupingColumns == <<"app_id", "version_name", "version_code", "apk_sha256">>

\* The values of the grouping columns of a row.
GroupKey(row) == [i \in 1..Len(GroupingColumns) |-> row[GroupingColumns[i]]]

\* A mutant: rows are put together by app_id and version alone.
InGroupByVersion(row, key) == \A i \in 1..3 : GroupKey(row)[i] = key[i]

\* Whether a row belongs to the group of a key.
InGroup(row, key) == GroupKey(row) = key

\* group_by_app_and_version(df, aggregator_funcs): one row per key, holding
\* the key and one column per aggregator.
GroupByAppAndVersion(df, aggregator_funcs) ==
    LET keys == Distinct([i \in 1..Len(df) |-> GroupKey(df[i])])
        aliases == {aggregator_funcs[j].alias : j \in 1..Len(aggregator_funcs)}
        grouping == {GroupingColumns[i] : i \in 1..Len(GroupingColumns)}
        RowsOf(key) == SelectSeq(df, LAMBDA row : InGroup(row, key))
    IN  [g \in 1..Len(keys) |->
            [c \in grouping \cup aliases |->
                IF c \in grouping
                THEN keys[g][CHOOSE i \in 1..Len(GroupingColumns) : GroupingColumns[i] = c]
                ELSE Aggregate(RowsOf(keys[g]),
                         aggregator_funcs[CHOOSE j \in 1..Len(aggregator_funcs) :
                                              aggregator_funcs[j].alias = c])]]

\* groupped_df.withColumn(name, sfunc.lit(value))
WithLiteralColumn(df, name, value) == [i \in 1..Len(df) |-> WithColumn(df[i], name, value)]

(***************************************************************************)
(* The recipes (apk_analysis.py lines 59-256).  Each gives the grouped     *)
(* DataFrame and the APKAnalysisResult made of it, or the exception that   *)
(* leaves it.                                                              *)
(***************************************************************************)
\* The default of the limit parameter of every recipe.
DefaultLimit == 500

\* The default of app_parquet_basenames.
DefaultBasenames == <<"*">>

\* task_arguments[name], or the parameter's default when the mapping has
\* no such key.
Arg(task_arguments, name, default) ==
    IF name \in DOMAIN task_arguments THEN task_arguments[name] ELSE default

\* android_permission_levels.json as load_permission_protection_level_map
\* reads it: "p.CAM" -> dangerous, "p.NET" -> normal.
PermissionProtectionLevelMap ==
    << [key |-> <<"p",".","C","A","M">>, value |-> "dangerous"],
       [key |-> <<"p",".","N","E","T">>, value |-> "normal"] >>

\* The characters of the class [a-zA-Z0-9_\.] of line 69.
PermissionNameChars ==
    { "a","b","c","d","e","f","g","h","i","j","k","l","m","n","o","p","q","r","s","t","u",
      "v","w","x","y","z","A","B","C","D","E","F","G","H","I","J","K","L","M","N","O","P",
      "Q","R","S","T","U","V","W","X","Y","Z","0","1","2","3","4","5","6","7","8","9",
      "_","." }

\* The smallest member of a non-empty set of integers.
Min(S) == CHOOSE i \in S : \A j \in S : i <= j

\* The number of leading characters of s that are members of chars.
RunLength(s, chars) ==
    LET others == {i \in 1..Len(s) : s[i] \notin chars}
    IN  IF others = {} THEN Len(s) ELSE Min(others) - 1

\* regexp_extract(line, "android:name=\"([a-zA-Z0-9_\.]+)\"", 1): group 1 of
\* the leftmost match, the empty string when nothing matches.
RegexpExtractPermission(line) ==
    LET opening == <<"a","n","d","r","o","i","d",":","n","a","m","e","=","\"">>
        n == Len(opening)
        starts == {i \in 1..(Len(line) - n + 1) : SubSeq(line, i, i + n - 1) = opening}
        RunAt(i) == RunLength(SubSeq(line, i + n, Len(line)), PermissionNameChars)
        hits == {i \in starts : /\ RunAt(i) >= 1
                                /\ i + n + RunAt(i) <= Len(line)
                                /\ line[i + n + RunAt(i)] = "\""}
    IN  IF hits = {} THEN <<>>
        ELSE SubSeq(line, Min(hits) + n, Min(hits) + n + RunAt(Min(hits)) - 1)

\* A mutant: every permission is looked up as if the catalog were empty.
GetProtectionLevelUnidentified(map, permission_name) == "unidentified"

\* get_protection_level_func (line 72)
GetProtectionLevel(map, permission_name) ==
    IF \E i \in 1..Len(DictKeys(map)) : DictKeys(map)[i] = permission_name
    THEN DictGet(map, permission_name)
    ELSE "unidentified"

\* Lines 65-74 of task_permission_scan: the rows that are grouped.
PermissionScanRows(df) ==
    LET manifest == SelectSeq(df, LAMBDA row : row.relative_path = ManifestPath)
        lines == SplitTextContentIntoLines(manifest)
        kept == SelectSeq(lines, LAMBDA row :
                    /\ Contains(row.line, <<"p","e","r","m","i","s","s","i","o","n"," ">>)
                    /\ Contains(row.line, <<" ","a","n","d","r","o","i","d",":","n","a","m","e","=","\"">>))
        named == [i \in 1..Len(kept) |->
                     WithColumn(kept[i], "permission", RegexpExtractPermission(kept[i].line))]
    IN  [i \in 1..Len(named) |->
            WithColumn(named[i], "protection_level",
                       GetProtectionLevel(PermissionProtectionLevelMap, named[i].permission))]

\* agg_funcs of line 76
PermissionAggregators ==
    << [func |-> "collect_list", column |-> "permission", alias |-> "permissions"],
       [func |-> "collect_list", column |-> "protection_level", alias |-> "protection_levels"] >>

\* Lines 196-207 of task_text_search.
TextSearchRows(df, search_terms, extensions, filename, case_sensitive) ==
    LET by_terms == FilterByTerms(df, search_terms, case_sensitive, FALSE)
        by_extension == IF Len(extensions) > 0 THEN FilterByExtension(by_terms, extensions)
                        ELSE by_terms
    IN  IF Len(filename) > 0 THEN FilterByPathContaining(by_extension, filename, case_sensitive)
        ELSE by_extension

\* Lines 224-248 of task_code_scan.
CodeScanRows(df, search_terms, package_name, with_developers, with_class_name, case_sensitive) ==
    LET smali == FilterByExtension(df, <<<<"s","m","a","l","i">>>>)
        in_package == IF Len(package_name) > 0
                      THEN FilterByClassnameContaining(smali, package_name, case_sensitive)
                      ELSE smali
        by_terms == FilterByTerms(in_package, search_terms, case_sensitive, FALSE)
        lines == FilterByTerms(SplitTextContentIntoLines(by_terms), search_terms,
                               case_sensitive, TRUE)
        developers == IF with_developers THEN AddColumnInferredDeveloper(lines) ELSE lines
    IN  IF with_class_name THEN AddColumnClassName(developers) ELSE developers

\* agg_funcs of lines 239-247
CodeScanAggregators(with_inferred_developers, with_class_name) ==
    <<AggregatorLines>>
        \o (IF with_inferred_developers THEN <<AggregatorInferredDevelopers>> ELSE <<>>)
        \o (IF with_class_name THEN <<AggregatorClassNamesList>> ELSE <<>>)

\* full_tracker_list.json: the entries of every catalog source.  "exodus"
\* lists AdsEx (domain ads.ex.com, class com.ex) and Tee (domain t.org,
\* class org.t); "other" lists Oth (class com.ex.M); "mixed" lists Mix
\* (domain Ads.Ex.com, class ex.M).
FullTrackerList ==
    << [name |-> "AdsEx", domain_names |-> <<<<"a","d","s",".","e","x",".","c","o","m">>>>,
        class_signatures |-> <<<<"c","o","m",".","e","x">>>>, source |-> "exodus"],
       [name |-> "Tee", domain_names |-> <<<<"t",".","o","r","g">>>>,
        class_signatures |-> <<<<"o","r","g",".","t">>>>, source |-> "exodus"],
       [name |-> "Oth", domain_names |-> <<>>,
        class_signatures |-> <<<<"c","o","m",".","e","x",".","M">>>>, source |-> "other"],
       [name |-> "Mix", domain_names |-> <<<<"A","d","s",".","E","x",".","c","o","m">>>>,
        class_signatures |-> <<<<"e","x",".","M">>>>, source |-> "mixed"] >>

\* load_tracker_list(source_name)
LoadTrackerList(source_name) ==
    SelectSeq(FullTrackerList, LAMBDA tracker : tracker.source = source_name)

\* get_tracker_name_func (lines 137 and 172): the tracker of the matched
\* key, or the text made for a value that is no key of the map.
GetTrackerName(map, matched) ==
    IF matched # None /\ DictHasKey(map, matched[1]) THEN <<DictGet(map, matched[1])>>
    ELSE <<"(not detected for ", IF matched = None THEN <<"None">> ELSE matched[1], ")">>

\* Whether s begins with prefix.
StartsWith(s, prefix) == Len(s) >= Len(prefix) /\ SubSeq(s, 1, Len(prefix)) = prefix

\* rlike of the pattern of lines 125 and 133, for signatures made of
\* letters and dots: some "^(signature)" is found, and the empty pattern
\* of an empty list is found in every value.
ClassNameRlike(class_name, classname_list) ==
    \/ classname_list = <<>>
    \/ \E i \in 1..Len(classname_list) : StartsWith(class_name, classname_list[i])

\* Lines 121-138 of task_tracker_classname_scan; a row whose function call
\* raises fails the job.
TrackerClassnameScanRows(df, tracker_list_name) ==
    LET classname_tracker_map == GetClassnameToTrackerMap(LoadTrackerList(tracker_list_name))
        classname_list == DictKeys(classname_tracker_map)
        named == AddColumnClassName(FilterByExtension(df, <<<<"s","m","a","l","i">>>>))
        kept == SelectSeq(named, LAMBDA row :
                    /\ row.class_name # None
                    /\ ClassNameRlike(row.class_name[1], classname_list))
        Matched(row) == IdentifyMatchingCriterion(row.class_name[1], classname_list, TRUE)
    IN  IF \E i \in 1..Len(kept) : Matched(kept[i]).status = "raised"
        THEN [raised |-> TRUE, exc |-> "PythonException", df |-> <<>>]
        ELSE [raised |-> FALSE, exc |-> "",
              df |-> [i \in 1..Len(kept) |->
                         WithColumn(
                             WithColumn(kept[i], "matching_classname", Matched(kept[i]).value),
                             "tracker_name",
                             GetTrackerName(classname_tracker_map, Matched(kept[i]).value))]]

\* agg_funcs of line 140
TrackerClassnameAggregators ==
    << [func |-> "collect_set", column |-> "tracker_name", alias |-> "trackers"] >>

\* rlike of the pattern of lines 158 and 166 on the folded line, for domains
\* made of letters and dots: some "(domain)" of a domain that holds a dot
\* is found, and the empty pattern of an empty list is found in every line.
DomainRlike(line, domain_list) ==
    LET dotted == SelectSeq(domain_list, LAMBDA domain : Contains(domain, <<".">>))
    IN  \/ dotted = <<>>
        \/ \E i \in 1..Len(dotted) : Contains(Lower(line), dotted[i])

\* Lines 155-175 of task_tracker_domain_scan.
TrackerDomainScanRows(df, tracker_list_name) ==
    LET domain_tracker_map == GetDomainToTrackerMap(LoadTrackerList(tracker_list_name))
        domain_list == DictKeys(domain_tracker_map)
        smali == SelectSeq(FilterByExtension(df, <<<<"s","m","a","l","i">>>>), LAMBDA row :
                     Contains(row.content_text[1], <<"c","o","n","s","t","-","s","t","r","i","n","g">>))
        kept == SelectSeq(SplitTextContentIntoLines(smali), LAMBDA row :
                    /\ Contains(row.line, <<"c","o","n","s","t","-","s","t","r","i","n","g">>)
                    /\ Contains(row.line, <<"h","t","t","p">>)
                    /\ DomainRlike(row.line, domain_list))
        Matched(row) == IdentifyMatchingCriterion(row.line, domain_list, TRUE)
    IN  IF \E i \in 1..Len(kept) : Matched(kept[i]).status = "raised"
        THEN [raised |-> TRUE, exc |-> "PythonException", df |-> <<>>]
        ELSE [raised |-> FALSE, exc |-> "",
              df |-> AddColumnClassName(
                         [i \in 1..Len(kept) |->
                             WithColumn(
                                 WithColumn(kept[i], "matching_domain", Matched(kept[i]).value),
                                 "tracker_name",
                                 GetTrackerName(domain_tracker_map, Matched(kept[i]).value))])]

\* agg_funcs of line 177
TrackerDomainAggregators ==
    << AggregatorClassNamesList, AggregatorLines,
       [func |-> "collect_set", column |-> "tracker_name", alias |-> "trackers"],
       [func |-> "collect_set", column |-> "matching_domain", alias |-> "domains"] >>

\* The letters and digits of the character classes of lines 95-102.
LowerAlnum ==
    { "a","b","c","d","e","f","g","h","i","j","k","l","m","n","o","p","q","r","s","t","u",
      "v","w","x","y","z","0","1","2","3","4","5","6","7","8","9" }

UpperLetters ==
    { "A","B","C","D","E","F","G","H","I","J","K","L","M","N","O","P","Q","R","S","T","U",
      "V","W","X","Y","Z" }

\* [-a-zA-Z0-9+&@#\/%=~_|], the class that ends a url.
UrlEndChars ==
    LowerAlnum \cup UpperLetters \cup {"-", "+", "&", "@", "#", "/", "%", "=", "~", "_", "|"}

\* [-a-zA-Z0-9+&@#\/%?=~_|!:,.;], the class of the body of a url.
UrlChars == UrlEndChars \cup {"?", "!", ":", ",", ".", ";"}

\* [-a-zA-Z0-9+&@#%?=~_|!:,.;], the class of a domain: UrlChars less "/".
DomainChars == UrlChars \ {"/"}

\* The set of positions just after a match of "https?" followed by `tail`
\* that starts at position i of s.
SchemeEnds(s, i, tail) ==
    {p \in {i + 4, i + 5} :
        /\ p + Len(tail) - 1 <= Len(s)
        /\ SubSeq(s, i, i + 3) = <<"h","t","t","p">>
        /\ p = i + 5 => s[i + 4] = "s"
        /\ SubSeq(s, p, p + Len(tail) - 1) = tail}

\* The largest member of a non-empty set of integers.
Max(S) == CHOOSE i \in S : \A j \in S : i >= j

\* regexp_extract(line, "(https?):\/[...]*[...]", 0): the leftmost match, its
\* body as long as the class allows and still ending in a member of
\* UrlEndChars; the empty string when nothing matches.
RegexpExtractUrl(line) ==
    LET tail == <<":","/">>
        Body(p) == p + Len(tail)
        Lengths(p) ==
            {k \in 1..RunLength(SubSeq(line, Body(p), Len(line)), UrlChars) :
                line[Body(p) + k - 1] \in UrlEndChars}
        hits == {i \in 1..Len(line) : \E p \in SchemeEnds(line, i, tail) : Lengths(p) # {}}
    IN  IF hits = {} THEN <<>>
        ELSE LET i == Min(hits)
                 p == CHOOSE q \in SchemeEnds(line, i, tail) : Lengths(q) # {}
             IN  SubSeq(line, i, Body(p) + Max(Lengths(p)) - 1)

\* regexp_extract(url, "(https?):\/\/([...]+)\/", 2): group 2 of the
\* leftmost match, the empty string when nothing matches.
RegexpExtractDomain(url) ==
    LET tail == <<":","/","/">>
        Body(p) == p + Len(tail)
        RunAt(p) == RunLength(SubSeq(url, Body(p), Len(url)), DomainChars)
        Closed(p) == /\ RunAt(p) >= 1
                     /\ Body(p) + RunAt(p) <= Len(url)
                     /\ url[Body(p) + RunAt(p)] = "/"
        hits == {i \in 1..Len(url) : \E p \in SchemeEnds(url, i, tail) : Closed(p)}
    IN  IF hits = {} THEN <<>>
        ELSE LET p == CHOOSE q \in SchemeEnds(url, Min(hits), tail) : Closed(q)
             IN  SubSeq(url, Body(p), Body(p) + RunAt(p) - 1)

\* A mutant: every domain passes, the empty one too.
IsFqdnAny(domain) == TRUE

\* One label of the pattern of line 105: at most 63 letters, digits and
\* hyphens, the first and the last no hyphen; the last label of a name has
\* two characters or more.
IsLabel(label, last) ==
    /\ Len(label) >= (IF last THEN 2 ELSE 1)
    /\ Len(label) <= 63
    /\ \A i \in 1..Len(label) : label[i] \in LowerAlnum \cup {"-"}
    /\ label[1] \in LowerAlnum
    /\ label[Len(label)] \in LowerAlnum

\* rlike of the pattern of line 105: two labels or more, with dots between.
IsFqdn(domain) ==
    LET labels == Split(domain, <<".">>)
    IN  /\ Len(labels) >= 2
        /\ \A i \in 1..Len(labels) : IsLabel(labels[i], i = Len(labels))

\* Lines 89-107 of task_url_extraction.
UrlExtractionRows(df) ==
    LET smali == SelectSeq(FilterByExtension(df, <<<<"s","m","a","l","i">>>>), LAMBDA row :
                     Contains(row.content_text[1], <<"c","o","n","s","t","-","s","t","r","i","n","g">>))
        lines == SelectSeq(SplitTextContentIntoLines(smali), LAMBDA row :
                    /\ Contains(row.line, <<"c","o","n","s","t","-","s","t","r","i","n","g">>)
                    /\ \/ Contains(row.line, <<"h","t","t","p",":","/","/">>)
                       \/ Contains(row.line, <<"h","t","t","p","s",":","/","/">>))
        with_url == [i \in 1..Len(lines) |->
                        WithColumn(lines[i], "url", RegexpExtractUrl(lines[i].line))]
        nonempty == SelectSeq(with_url, LAMBDA row :
                        row.url # <<"h","t","t","p","s",":","/","/">> /\ row.url # <<"h","t","t","p",":","/","/">>)
        with_domain == [i \in 1..Len(nonempty) |->
                           WithColumn(nonempty[i], "domain", RegexpExtractDomain(nonempty[i].url))]
    IN  AddColumnClassName(SelectSeq(with_domain, LAMBDA row : IsFqdn(row.domain)))

\* agg_funcs of line 109
UrlExtractionAggregators ==
    << [func |-> "collect_set", column |-> "url", alias |-> "urls"],
       [func |-> "collect_set", column |-> "domain", alias |-> "domains"],
       AggregatorClassNamesList, AggregatorLines >>

\* The six recipes: the attributes of an APKAnalysis object whose names
\* begin with "task_".
Recipes ==
    {"task_permission_scan", "task_url_extraction", "task_tracker_classname_scan",
     "task_tracker_domain_scan", "task_text_search", "task_code_scan"}

\* The keyword parameters of each recipe.
RecipeParameters(recipe) ==
    CASE recipe \in {"task_permission_scan", "task_url_extraction"} ->
            {"app_parquet_basenames", "limit"}
      [] recipe \in {"task_tracker_classname_scan", "task_tracker_domain_scan"} ->
            {"app_parquet_basenames", "tracker_list_name", "limit"}
      [] recipe = "task_text_search" ->
            {"app_parquet_basenames", "search_terms", "extensions", "filename",
             "case_sensitive", "limit"}
      [] recipe = "task_code_scan" ->
            {"app_parquet_basenames", "search_terms", "package_name",
             "with_inferred_developers", "with_class_name", "case_sensitive", "limit"}

\* A mutant: no recipe returns before it reads.
FailsClosedNever(recipe, task_arguments) == FALSE

\* The guards of lines 118, 152, 190-194 and 218-222.  None and the empty
\* string are both "", None and the empty list are both <<>>.
FailsClosed(recipe, task_arguments) ==
    CASE recipe \in {"task_tracker_classname_scan", "task_tracker_domain_scan"} ->
            Arg(task_arguments, "tracker_list_name", "") = ""
      [] recipe \in {"task_text_search", "task_code_scan"} ->
            Len(Arg(task_arguments, "search_terms", <<>>)) <= 0
      [] OTHER -> FALSE

\* The rows a recipe groups, made of the rows read.
RecipeRows(recipe, task_arguments, df) ==
    LET Plain(rows) == [raised |-> FALSE, exc |-> "", df |-> rows]
        case_sensitive == Arg(task_arguments, "case_sensitive", FALSE)
    IN  CASE recipe = "task_permission_scan" -> Plain(PermissionScanRows(df))
          [] recipe = "task_url_extraction" -> Plain(UrlExtractionRows(df))
          [] recipe = "task_tracker_classname_scan" ->
                TrackerClassnameScanRows(df, task_arguments["tracker_list_name"])
          [] recipe = "task_tracker_domain_scan" ->
                TrackerDomainScanRows(df, task_arguments["tracker_list_name"])
          [] recipe = "task_text_search" ->
                Plain(TextSearchRows(df, task_arguments["search_terms"],
                                     Arg(task_arguments, "extensions", <<>>),
                                     Arg(task_arguments, "filename", <<>>), case_sensitive))
          [] recipe = "task_code_scan" ->
                Plain(CodeScanRows(df, task_arguments["search_terms"],
                                   Arg(task_arguments, "package_name", <<>>),
                                   Arg(task_arguments, "with_inferred_developers", TRUE),
                                   Arg(task_arguments, "with_class_name", TRUE),
                                   case_sensitive))

\* The aggregators a recipe hands to group_by_app_and_version.
RecipeAggregators(recipe, task_arguments) ==
    CASE recipe = "task_permission_scan" -> PermissionAggregators
      [] recipe = "task_url_extraction" -> UrlExtractionAggregators
      [] recipe = "task_tracker_classname_scan" -> TrackerClassnameAggregators
      [] recipe = "task_tracker_domain_scan" -> TrackerDomainAggregators
      [] recipe = "task_text_search" -> <<AggregatorRelativePaths>>
      [] recipe = "task_code_scan" ->
            CodeScanAggregators(Arg(task_arguments, "with_inferred_developers", TRUE),
                                Arg(task_arguments, "with_class_name", TRUE))

\* How a call ends: it returns a dict ("{}" of the driver, or the __dict__
\* of an APKAnalysisResult, held in value) or raises exc.  grouped is the
\* DataFrame the result was made of.
Returned(dict, value, grouped) ==
    [status |-> "returned", exc |-> "", dict |-> dict, value |-> value, grouped |-> grouped]

Raised(exc) ==
    [status |-> "raised", exc |-> exc, dict |-> "", value |-> EmptyAnalysisResult,
     grouped |-> <<>>]

\* A recipe from its read on: read_parquets, the filters, the grouping,
\* get_result_obj.
RecipeBody(recipe, task_arguments, st) ==
    LET read == ReadParquets(st, Arg(task_arguments, "app_parquet_basenames", DefaultBasenames))
        rows == RecipeRows(recipe, task_arguments, read.df)
        groups == GroupByAppAndVersion(rows.df, RecipeAggregators(recipe, task_arguments))
        groupped_df ==
            IF recipe \in {"task_tracker_classname_scan", "task_tracker_domain_scan"}
            THEN WithLiteralColumn(groups, "tracker_list", task_arguments["tracker_list_name"])
            ELSE groups
    IN  IF read.raised THEN Raised(read.exc)
        ELSE IF rows.raised THEN Raised(rows.exc)
        ELSE Returned("__dict__",
                      GetResultObj(groupped_df, Arg(task_arguments, "limit", DefaultLimit)),
                      groupped_df)

(***************************************************************************)
(* The analysis driver: analyse_apks (appinspect_ops.py lines 43-61).      *)
(***************************************************************************)
\* getattr(analysis, task_name) for a name that begins with "task_": the
\* recipe of that name, "" when the object has no such attribute.
GetAttr(task_name) ==
    CASE task_name = <<"t","a","s","k","_","p","e","r","m","i","s","s","i","o","n","_","s","c","a","n">> -> "task_permission_scan"
      [] task_name = <<"t","a","s","k","_","u","r","l","_","e","x","t","r","a","c","t","i","o","n">> -> "task_url_extraction"
      [] task_name = <<"t","a","s","k","_","t","r","a","c","k","e","r","_","c","l","a","s","s","n","a","m","e",
      "_","s","c","a","n">> -> "task_tracker_classname_scan"
      [] task_name = <<"t","a","s","k","_","t","r","a","c","k","e","r","_","d","o","m","a","i","n","_","s","c",
      "a","n">> -> "task_tracker_domain_scan"
      [] task_name = <<"t","a","s","k","_","t","e","x","t","_","s","e","a","r","c","h">> -> "task_text_search"
      [] task_name = <<"t","a","s","k","_","c","o","d","e","_","s","c","a","n">> -> "task_code_scan"
      [] OTHER -> ""

\* analyse_apks up to the recipe's read: the outcome when the call ends
\* there, "recipe" when the recipe goes on to read the store.
Dispatch(analysis_config, task_name, task_arguments) ==
    IF ~analysis_config THEN Returned("{}", EmptyAnalysisResult, <<>>)
    ELSE IF task_name = <<>> THEN Returned("{}", EmptyAnalysisResult, <<>>)
    ELSE IF ~StartsWith(task_name, <<"t","a","s","k","_">>) THEN Returned("{}", EmptyAnalysisResult, <<>>)
    ELSE IF GetAttr(task_name) = "" THEN Raised("AttributeError")
    ELSE IF ~(DOMAIN task_arguments \subseteq RecipeParameters(GetAttr(task_name)))
         THEN Raised("TypeError")
    ELSE IF FailsClosed(GetAttr(task_name), task_arguments)
         THEN Returned("__dict__", EmptyAnalysisResult, <<>>)
    ELSE [status |-> "recipe", exc |-> "", dict |-> "", value |-> EmptyAnalysisResult,
          grouped |-> <<>>]


(***************************************************************************)
(* State.                                                                  *)
(***************************************************************************)
VARIABLES
    store,       \* app_id -> partition of the content store
    buffer,      \* APK files present under apk_buffer_basepath
    archive,     \* APK files present under apk_archive_basepath
    pc,          \* caller -> where its call stands
    call,        \* caller -> the arguments and locals of its call
    result,      \* caller -> how its call ended
    wrote,       \* caller -> whether its call ran write_to_dataset
    cf_input,    \* classifier: the file handed to read_apk_content_file
    cf_output,   \* classifier: what the call gave back
    m_input,     \* matcher: line and criterion list
    m_output,    \* matcher: what identify_matching_criterion gave back
    cat_input,   \* catalog reduction: the tracker list
    cat_output,  \* catalog reduction: the two lookup maps
    path_input,  \* path helpers: the relative path and the segments it was built of
    path_output, \* path helpers: the class name and the inferred developer
    lim_input,   \* get_result_obj: the grouped DataFrame and the limit
    lim_output,  \* get_result_obj: the APKAnalysisResult
    an_pc,       \* analyst -> where its run of analyse_apks stands
    an_call,     \* analyst -> the configuration and arguments of its run
    an_result,   \* analyst -> how its run ended
    an_read,     \* analyst -> whether its run read the store
    fl_pc,       \* fan-out: where get_apk_content_file_list stands
    fl_input,    \* fan-out: the extraction root and the files the walk finds
    fl_task,     \* fan-out: task -> pending, running or done
    fl_held,     \* fan-out: pool process -> the task it runs (0: none)
    fl_outqueue, \* fan-out: the results put on the result queue, in order
    fl_value,    \* fan-out: task -> its result, once stored
    fl_output,   \* fan-out: what get_apk_content_file_list gave back
    wk_queue,    \* worker: action -> the items of its PriorityQueue
    wk_thread,   \* worker: daemon thread -> where it stands, and its locals
    wk_busy,     \* worker: busy_threads
    wk_lock,     \* worker: who holds hub_lock ("free": nobody)
    wk_hub,      \* worker: the callback thread of the hub connection
    wk_conn,     \* worker: the connection: closed, open, registered
    wk_task      \* worker: task -> what is known of it

vars == <<store, buffer, archive, pc, call, result, wrote,
          cf_input, cf_output, m_input, m_output, cat_input, cat_output,
          path_input, path_output, lim_input, lim_output,
          an_pc, an_call, an_result, an_read,
          fl_pc, fl_input, fl_task, fl_held, fl_outqueue, fl_value, fl_output,
          wk_queue, wk_thread, wk_busy, wk_lock, wk_hub, wk_conn, wk_task>>

ingestVars == <<store, buffer, archive, pc, call, result, wrote>>
classifierVars == <<cf_input, cf_output>>
matcherVars == <<m_input, m_output>>
catalogVars == <<cat_input, cat_output>>
\* The state of the analysis side, which ingestion never touches.
pathVars == <<path_input, path_output>>
limitVars == <<lim_input, lim_output>>
recipeVars == <<an_pc, an_call, an_result, an_read>>
poolVars == <<fl_pc, fl_input, fl_task, fl_held, fl_outqueue, fl_value, fl_output>>
workerVars == <<wk_queue, wk_thread, wk_busy, wk_lock, wk_hub, wk_conn, wk_task>>
\* The state of the worker side: the pool of the fan-out and the worker.
serviceVars == <<poolVars, workerVars>>
analysisVars == <<catalogVars, pathVars, limitVars, recipeVars, serviceVars>>

Callers == 1..NumCallers

\* APK files in the buffer directory and the (app_id, hash) each holds.
\* retrieve_apk names a download by its time stamp, so one package can be
\* in the buffer under two names.
ApkFiles == {"x.apk", "y.apk", "z.apk"}

ApkAppId(apk) == IF apk = "z.apk" THEN "com.b" ELSE "com.a"

\* Utility.get_file_hash_sha256 of the APK file.
GetFileHashSha256(apk) == IF apk = "z.apk" THEN "h2" ELSE "h1"

NoInfo == [app_id |-> "", version_code |-> 0, version_name |-> "", apk_sha256 |-> ""]

NoCall ==
    [op |-> "none", apk |-> "", apk_basicinfo |-> NoInfo, content_file_list |-> <<>>,
     append_if_exists |-> TRUE, certificate_bound |-> FALSE]

\* The call record kept once a call has ended.
Ended(c) ==
    [NoCall EXCEPT !.op = call[c].op,
                   !.apk_basicinfo = call[c].apk_basicinfo,
                   !.append_if_exists = call[c].append_if_exists]

\* The state of the ingestion side before any call.  A partition is absent
\* or was left by an earlier release with an incomplete schema.
InitialStores ==
    { s \in [AppIds -> {Absent} \cup {LegacyPartition(a, "h1") : a \in AppIds}] :
        \A a \in AppIds : \A i \in 1..Len(ReadTable(s[a])) : ReadTable(s[a])[i].app_id = a }

IngestInit ==
    /\ store \in InitialStores
    /\ buffer = ApkFiles
    /\ archive = {}
    /\ pc = [c \in Callers |-> "idle"]
    /\ call = [c \in Callers |-> NoCall]
    /\ result = [c \in Callers |-> "none"]
    /\ wrote = [c \in Callers |-> FALSE]


(***************************************************************************)
(* write_as_parquet (apk_converter.py lines 136-160), in the three steps   *)
(* another caller can come between: the call, the check or removal, the    *)
(* write.                                                                  *)
(***************************************************************************)
\* A direct call of write_as_parquet(apk_basicinfo, content_file_list,
\* parquet_base_path, append_if_exists).
CallWriteAsParquet(c) ==
    /\ pc[c] = "idle"
    /\ \E app \in AppIds, h \in ApkHashes, recs \in RecordLists, append \in BOOLEAN :
          call' = [call EXCEPT ![c] =
                      [op |-> "write_as_parquet", apk |-> "",
                       apk_basicinfo |-> ApkBasicInfo(app, h),
                       content_file_list |-> recs,
                       append_if_exists |-> append,
                       certificate_bound |-> FALSE]]
    /\ pc' = [pc EXCEPT ![c] = "check"]
    /\ UNCHANGED <<store, buffer, archive, result, wrote, classifierVars, matcherVars, analysisVars>>

\* A mutant: the duplicate check made before the schema check.
AppendCheckDuplicateFirst(partition, apk_sha256) ==
    IF ~partition.exists THEN "pass"
    ELSE IF ApkSha256Exists(partition, apk_sha256) THEN "DuplicatePackageError"
    ELSE IF ~ValidateApkContentTable(partition) THEN "SchemaError"
    ELSE "pass"

\* Lines 151-156: the checks of an Append against the partition as read.
AppendCheck(partition, apk_sha256) ==
    IF ~partition.exists THEN "pass"
    ELSE IF ~ValidateApkContentTable(partition) THEN "SchemaError"
    ELSE IF ApkSha256Exists(partition, apk_sha256) THEN "DuplicatePackageError"
    ELSE "pass"

\* A mutant: the tree is left in place.
KeepPartition(partition) == partition

\* Utility.remove_file_or_dir_if_exists(path) on a partition.
RemoveFileOrDirIfExists(partition) == Absent

\* A mutant: the tree of the base path is removed, with every partition.
RemoveBaseTree(s, app_id) == [a \in DOMAIN s |-> Absent]

\* Line 158 on the path of line 149, os.path.join(parquet_base_path,
\* app_id): the tree of that one partition is removed from the store.
RemovePartitionTree(s, app_id) == [s EXCEPT ![app_id] = RemoveFileOrDirIfExists(@)]

\* A mutant: the new files replace what the partition held.
WriteToDatasetReplacing(partition, table) ==
    [exists |-> TRUE, columns |-> AllFields, batches |-> <<table>>]

\* pyarrow.parquet.write_to_dataset(table, path): the table is written as
\* new files under the partition, which is created when absent.
WriteToDataset(partition, table) ==
    [exists |-> TRUE,
     columns |-> IF partition.exists THEN partition.columns ELSE AllFields,
     batches |-> Append(partition.batches, table)]

\* Lines 149-158.
CommitCheck(c) ==
    /\ pc[c] = "check"
    /\ LET info == call[c].apk_basicinfo
           verdict == AppendCheck(store[info.app_id], info.apk_sha256)
       IN  IF call[c].append_if_exists
           THEN /\ store' = store
                /\ IF verdict = "pass"
                   THEN /\ pc' = [pc EXCEPT ![c] = "write"]
                        /\ UNCHANGED <<call, result>>
                   ELSE /\ pc' = [pc EXCEPT ![c] = "done"]
                        /\ result' = [result EXCEPT ![c] = verdict]
                        /\ call' = [call EXCEPT ![c] = Ended(c)]
           ELSE /\ store' = RemovePartitionTree(store, info.app_id)
                /\ pc' = [pc EXCEPT ![c] = "write"]
                /\ UNCHANGED <<call, result>>
    /\ UNCHANGED <<buffer, archive, wrote, classifierVars, matcherVars, analysisVars>>

\* Line 159, and the return of line 160.
CommitWrite(c) ==
    /\ pc[c] = "write"
    /\ LET info == call[c].apk_basicinfo
           table == ContentTable(info, call[c].content_file_list)
       IN  store' = [store EXCEPT ![info.app_id] = WriteToDataset(@, table)]
    /\ wrote' = [wrote EXCEPT ![c] = TRUE]
    /\ IF call[c].op = "convert_and_move_apk"
       THEN /\ pc' = [pc EXCEPT ![c] = "finish"]
            /\ UNCHANGED <<call, result>>
       ELSE /\ pc' = [pc EXCEPT ![c] = "done"]
            /\ result' = [result EXCEPT ![c] = "ok"]
            /\ call' = [call EXCEPT ![c] = Ended(c)]
    /\ UNCHANGED <<buffer, archive, classifierVars, matcherVars, analysisVars>>

(***************************************************************************)
(* convert_and_move_apk (appinspect_ops.py lines 74-154).  The outcomes of *)
(* the external tools are inputs.  jarsigner only sets a field of the      *)
(* returned info and is left out.                                          *)
(***************************************************************************)
\* The name the APK gets in the archive (line 144).
ArchivePath(info) == <<info.app_id, info.version_code, info.apk_sha256>>

\* Lines 82-138, up to the call of write_as_parquet inside
\* convert_apk_to_parquet.
ConvertAndMoveApk(c) ==
    /\ pc[c] = "idle"
    /\ \E apk \in ApkFiles, apktool_ok \in BOOLEAN, keytool_ok \in BOOLEAN, manifest_ok \in BOOLEAN :
          LET h == GetFileHashSha256(apk)
              info == ApkBasicInfo(ApkAppId(apk), h)
              read == GetApkContentFileList(ExtractedRoot, ExtractedFiles(h))
              failure ==
                  IF apk \notin buffer THEN "APK file does not exist"
                  ELSE IF ~apktool_ok THEN "APK extraction failed"
                  ELSE IF ~manifest_ok THEN "DescriptorError"
                  ELSE IF \E i \in 1..Len(read) : read[i].raised THEN "UnicodeDecodeError"
                  ELSE "pass"
          IN  IF failure = "pass"
              THEN /\ call' = [call EXCEPT ![c] =
                                  [op |-> "convert_and_move_apk", apk |-> apk,
                                   apk_basicinfo |-> info,
                                   content_file_list |-> [i \in 1..Len(read) |-> read[i].value[1]],
                                   append_if_exists |-> TRUE,
                                   certificate_bound |-> keytool_ok]]
                   /\ pc' = [pc EXCEPT ![c] = "check"]
                   /\ UNCHANGED result
              ELSE /\ call' = [call EXCEPT ![c] =
                                  [NoCall EXCEPT !.op = "convert_and_move_apk"]]
                   /\ pc' = [pc EXCEPT ![c] = "done"]
                   /\ result' = [result EXCEPT ![c] = failure]
    /\ UNCHANGED <<store, buffer, archive, wrote, classifierVars, matcherVars, analysisVars>>

\* Lines 140-154: the move to the archive and the return.  The return
\* statement reads certificate_summary, which line 132 binds only when
\* keytool succeeded.
CamFinish(c) ==
    /\ pc[c] = "finish"
    /\ IF call[c].apk \notin buffer
       THEN /\ result' = [result EXCEPT ![c] = "FileNotFoundError"]
            /\ UNCHANGED <<buffer, archive, classifierVars, matcherVars, analysisVars>>
       ELSE /\ buffer' = buffer \ {call[c].apk}
            /\ archive' = archive \cup {ArchivePath(call[c].apk_basicinfo)}
            /\ result' = [result EXCEPT ![c] =
                             IF call[c].certificate_bound THEN "ok" ELSE "UnboundLocalError"]
    /\ pc' = [pc EXCEPT ![c] = "done"]
    /\ call' = [call EXCEPT ![c] = Ended(c)]
    /\ UNCHANGED <<store, wrote, classifierVars, matcherVars, analysisVars>>

\* No call is under way.
Quiet == \A c \in Callers : pc[c] \in {"idle", "done"}


(***************************************************************************)
(* The classifier and the matcher run on their own inputs.                 *)
(***************************************************************************)
SeqsUpTo(S, n) == UNION {[1..k -> S] : k \in 0..n}

NoFile == [filename |-> <<>>, bytes |-> <<>>]
NoOutput == [status |-> "idle", value |-> None]
NoMatch == [line |-> <<>>, criterion_list |-> <<>>, case_insensitive |-> TRUE]

\* Paths below the extraction root: "/m.xml", "/M.XML", "/c.dex", "/d/xml"
\* (a name without a dot), "/a.Xml", "/x/t.txt" (the root's name again).
ClassifierPaths ==
    { <<"/","m",".","x","m","l">>, <<"/","M",".","X","M","L">>,
      <<"/","c",".","d","e","x">>, <<"/","d","/","x","m","l">>,
      <<"/","a",".","X","m","l">>, <<"/","x","/","t",".","t","x","t">> }

ClassifierIdle == cf_input = NoFile /\ cf_output = NoOutput
MatcherIdle == m_input = NoMatch /\ m_output = NoOutput
NoMaps == [status |-> "idle", domain_map |-> <<>>, classname_map |-> <<>>]
CatalogIdle == cat_input = <<>> /\ cat_output = NoMaps
NoPath == [segments |-> <<>>, path |-> <<>>]
NoNames == [status |-> "idle", class_name |-> None, developer |-> None]
PathIdle == path_input = NoPath /\ path_output = NoNames
NoDf == [df |-> <<>>, limit |-> 0]
NoResult == [status |-> "idle", value |-> EmptyAnalysisResult]
LimitIdle == lim_input = NoDf /\ lim_output = NoResult
\* The runs of analyse_apks, which may overlap (several workers, or several
\* users of AppInspectOps, over one Parquet base path).
Analysts == {"r1", "r2"}

\* The empty argument mapping.
NoArguments == [k \in {} |-> 0]

NoAnalysisCall == [analysis_config |-> FALSE, task_name |-> <<>>, task_arguments |-> NoArguments]

NoOutcome ==
    [status |-> "none", exc |-> "", dict |-> "", value |-> EmptyAnalysisResult, grouped |-> <<>>]

RecipeIdle ==
    /\ an_pc = [r \in Analysts |-> "done"]
    /\ an_call = [r \in Analysts |-> NoAnalysisCall]
    /\ an_result = [r \in Analysts |-> NoOutcome]
    /\ an_read = [r \in Analysts |-> FALSE]

\* The processes of the pool of the fan-out.
PoolWorkers == {"w1", "w2"}

NoFileList == [status |-> "idle", value |-> <<>>]

PoolIdle ==
    /\ fl_pc = "done"
    /\ fl_input = [exists |-> FALSE, files |-> <<>>]
    /\ fl_task = <<>>
    /\ fl_held = [w \in PoolWorkers |-> 0]
    /\ fl_outqueue = <<>>
    /\ fl_value = <<>>
    /\ fl_output = NoFileList

(***************************************************************************)
(* The worker (appinspect_worker.py): its table of actions, the tasks the  *)
(* service assigns, and the state of an AppInspectWorker object.           *)
(***************************************************************************)
\* action_info_list (lines 41-44); every entry is enabled.
ActionInfoList ==
    << [op_method |-> "query_googleplay",
        required_parameters |-> {"query_method", "query_json_string"}, max_threads |-> 1],
       [op_method |-> "retrieve_apk", required_parameters |-> {"appid"}, max_threads |-> 1],
       [op_method |-> "convert_and_move_apk", required_parameters |-> {"apk_filename"},
        max_threads |-> 1],
       [op_method |-> "analyse_apks", required_parameters |-> {"task_name", "task_arguments"},
        max_threads |-> 1] >>

\* supported_actions (line 46)
SupportedActions == {ActionInfoList[k].op_method : k \in 1..Len(ActionInfoList)}

\* get_action_info_by_name(action_name), for a name of the table
GetActionInfoByName(action_name) ==
    ActionInfoList[CHOOSE k \in 1..Len(ActionInfoList) :
                       ActionInfoList[k].op_method = action_name]

\* A mutant: two daemon threads are started for every action.
DaemonCountTwo(action_info) == 2

\* range(action_info.max_threads) of line 76: the daemon threads started
\* for an action.
DaemonCount(action_info) == action_info.max_threads

\* The daemon threads: (action, number).
DaemonThreads ==
    UNION { {<<ActionInfoList[k].op_method, i>> : i \in 1..DaemonCount(ActionInfoList[k])} :
                k \in 1..Len(ActionInfoList) }

\* The ids of the tasks the service assigns in a run, in this order.
TaskIds == <<"t1", "t2">>

\* The place of a task id in TaskIds (ids compare as strings do).
TaskRank(task_id) == CHOOSE k \in 1..Len(TaskIds) : TaskIds[k] = task_id

\* The argument strings of the tasks: the arguments of convert_and_move_apk,
\* those of analyse_apks, a text that is no JSON, and a JSON number.
ArgumentStrings ==
    { "{\"apk_filename\": \"a.apk\"}", "{\"task_name\": \"task_x\", \"task_arguments\": {}}",
      "{", "5" }

\* json.loads(task_arguments_json_str): the keys of the object, the type of
\* another value, or JSONDecodeError.
JsonLoads(json_str) ==
    CASE json_str = "{\"apk_filename\": \"a.apk\"}" ->
            [raised |-> FALSE, type |-> "dict", keys |-> {"apk_filename"}]
      [] json_str = "{\"task_name\": \"task_x\", \"task_arguments\": {}}" ->
            [raised |-> FALSE, type |-> "dict", keys |-> {"task_name", "task_arguments"}]
      [] json_str = "5" -> [raised |-> FALSE, type |-> "int", keys |-> {}]
      [] OTHER -> [raised |-> TRUE, type |-> "", keys |-> {}]

\* The actions the service names in AssignTask and in the pending tasks.
AssignedActions == {"convert_and_move_apk", "analyse_apks", "unknown_action"}

Priorities == {0, 1}

\* What is known of a task: how it was assigned, whether it was put on a
\* queue and taken off it, how its op and its upload ended, and the error
\* arguments of the CompleteTask messages sent for it ("null" for None).
NoTask ==
    [assigned |-> FALSE, action |-> "", arguments |-> "", priority |-> 0, enqueued |-> FALSE,
     dequeued |-> FALSE, op |-> "none", upload |-> "none", completes |-> <<>>]

\* A daemon thread blocked in get(), and the callback thread with nothing
\* to handle.
IdleThread == [pc |-> "get", task |-> "", loaded |-> 0, error |-> ""]

IdleHub == [pc |-> "idle", method |-> "", task |-> "", list |-> <<>>, index |-> 0,
            counts |-> [a \in SupportedActions |-> 0], takeup |-> <<>>]

\* The worker after __init__: empty queues, the daemon threads started,
\* the connection not yet open.
WorkerConstructed ==
    /\ wk_queue = [a \in SupportedActions |-> <<>>]
    /\ wk_thread = [th \in DaemonThreads |-> IdleThread]
    /\ wk_busy = 0
    /\ wk_lock = "free"
    /\ wk_hub = IdleHub
    /\ wk_conn = "closed"
    /\ wk_task = [t \in 1..Len(TaskIds) |-> NoTask]

WorkerIdle == WorkerConstructed

ServiceIdle == PoolIdle /\ WorkerIdle

AnalysisIdle == CatalogIdle /\ PathIdle /\ LimitIdle /\ RecipeIdle /\ ServiceIdle
IngestIdle ==
    /\ store = [a \in AppIds |-> Absent]
    /\ buffer = {}
    /\ archive = {}
    /\ pc = [c \in Callers |-> "done"]
    /\ call = [c \in Callers |-> NoCall]
    /\ result = [c \in Callers |-> "none"]
    /\ wrote = [c \in Callers |-> FALSE]

ClassifyInit ==
    /\ cf_input \in [filename : {ExtractedRoot \o q : q \in ClassifierPaths},
                     bytes : SeqsUpTo(ByteValues, MaxContentLen)]
    /\ cf_output = [status |-> "pending", value |-> None]
    /\ MatcherIdle
    /\ AnalysisIdle
    /\ IngestIdle

\* One call of read_apk_content_file.
ReadFile ==
    /\ cf_output.status = "pending"
    /\ LET r == ReadApkContentFile(cf_input.filename, ExtractedRoot, cf_input.bytes)
       IN  cf_output' = [status |-> IF r.raised THEN "raised" ELSE "returned", value |-> r.value]
    /\ UNCHANGED <<cf_input, m_input, m_output, ingestVars, analysisVars>>

\* Criteria: "a", "B", "ab", "a.b" (literals); "a=", "a*b", "A*", "a..b"
\* (each holds a member of regex_signs); "*a" (not a well-formed pattern).
CriterionPool ==
    { <<"a">>, <<"B">>, <<"a","b">>, <<"a",".","b">>,
      <<"a","=">>, <<"a","*","b">>, <<"A","*">>, <<"a",".",".","b">>,
      <<"*","a">> }

\* Lines: "ab", "AB", "a.b", "a..b", "a=", "b", "".
LinePool ==
    { <<"a","b">>, <<"A","B">>, <<"a",".","b">>, <<"a",".",".","b">>,
      <<"a","=">>, <<"b">>, <<>> }

MatchInit ==
    /\ m_input \in [line : LinePool,
                    criterion_list : SeqsUpTo(CriterionPool, MaxCriteria),
                    case_insensitive : BOOLEAN]
    /\ m_output = [status |-> "pending", value |-> None]
    /\ ClassifierIdle
    /\ AnalysisIdle
    /\ IngestIdle

\* Criteria for the literal/regex choice: "ab", "a.b" (no member of
\* regex_signs); "a..b", "a=", "a.=" (a member, and only characters that
\* are literal once the dots are escaped); "a*b", "A*", "*a" (a star).
DisambigCriteria ==
    { <<"a","b">>, <<"a",".","b">>,
      <<"a",".",".","b">>, <<"a","=">>, <<"a",".","=">>,
      <<"a","*","b">>, <<"A","*">>, <<"*","a">> }

\* Lines: "a.b", "axb", "a..b", "axyb", "a=", "a.=", "ax=", "b", "AB", "".
DisambigLines ==
    { <<"a",".","b">>, <<"a","x","b">>, <<"a",".",".","b">>, <<"a","x","y","b">>,
      <<"a","=">>, <<"a",".","=">>, <<"a","x","=">>, <<"b">>, <<"A","B">>, <<>> }

DisambigInit ==
    /\ m_input \in [line : DisambigLines,
                    criterion_list : SeqsUpTo(DisambigCriteria, MaxCriteria - 1),
                    case_insensitive : BOOLEAN]
    /\ m_output = [status |-> "pending", value |-> None]
    /\ ClassifierIdle
    /\ AnalysisIdle
    /\ IngestIdle

\* One call of identify_matching_criterion.
Identify ==
    /\ m_output.status = "pending"
    /\ m_output' = IdentifyMatchingCriterion(m_input.line, m_input.criterion_list,
                                             m_input.case_insensitive)
    /\ UNCHANGED <<m_input, cf_input, cf_output, ingestVars, analysisVars>>

\* Tracker entries of one catalog source: keys shared between entries of
\* different names, a key repeated within an entry, empty key lists, and two
\* entries of one name.
TrackerPool ==
    { [name |-> "A", domain_names |-> <<"d1", "d2">>, class_signatures |-> <<"c1">>,
       source |-> "exodus"],
      [name |-> "B", domain_names |-> <<"d2", "d1">>, class_signatures |-> <<"c1", "c2">>,
       source |-> "exodus"],
      [name |-> "C", domain_names |-> <<>>, class_signatures |-> <<"c2", "c2">>,
       source |-> "exodus"],
      [name |-> "D", domain_names |-> <<"d3", "d1", "d3">>, class_signatures |-> <<>>,
       source |-> "exodus"],
      [name |-> "A", domain_names |-> <<"d3">>, class_signatures |-> <<"c2">>,
       source |-> "exodus"] }

CatalogInit ==
    /\ cat_input \in SeqsUpTo(TrackerPool, MaxTrackers)
    /\ cat_output = [NoMaps EXCEPT !.status = "pending"]
    /\ PathIdle
    /\ LimitIdle
    /\ RecipeIdle
    /\ ServiceIdle
    /\ ClassifierIdle
    /\ MatcherIdle
    /\ IngestIdle

\* The two catalog reductions of one tracker list.
BuildLookup ==
    /\ cat_output.status = "pending"
    /\ cat_output' = [status |-> "returned",
                      domain_map |-> GetDomainToTrackerMap(cat_input),
                      classname_map |-> GetClassnameToTrackerMap(cat_input)]
    /\ UNCHANGED <<cat_input, pathVars, limitVars, classifierVars, matcherVars, ingestVars, recipeVars,
                   serviceVars>>

\* Path segments: "", "smali", "com", "net", "ex", "M.smali",
\* "M.smali.smali".
SegmentPool ==
    { <<>>, <<"s","m","a","l","i">>, <<"c","o","m">>, <<"n","e","t">>, <<"e","x">>,
      <<"M">> \o SmaliSuffix, <<"M">> \o SmaliSuffix \o SmaliSuffix }

\* A relative path is one to MaxSegments segments joined by the separator;
\* an empty first segment gives the leading separator.
PathInit ==
    /\ \E segments \in SeqsUpTo(SegmentPool, MaxSegments) \ {<<>>} :
          path_input = [segments |-> segments, path |-> Join(segments, <<"/">>)]
    /\ path_output = [NoNames EXCEPT !.status = "pending"]
    /\ CatalogIdle
    /\ LimitIdle
    /\ RecipeIdle
    /\ ServiceIdle
    /\ ClassifierIdle
    /\ MatcherIdle
    /\ IngestIdle

\* The two path helpers on one relative path (lines 326 and 331).
DerivePath ==
    /\ path_output.status = "pending"
    /\ path_output' = [status |-> "returned",
                       class_name |-> GetClassFullName(path_input.path),
                       developer |-> InferDeveloperFromPackagename(path_input.path)]
    /\ UNCHANGED <<path_input, catalogVars, limitVars, classifierVars, matcherVars, ingestVars, recipeVars,
                   serviceVars>>

\* Grouped records handed to get_result_obj: one per application version.
GroupPool ==
    { [app_id |-> "com.a", version_name |-> "1.0", version_code |-> 1, apk_sha256 |-> "h1"],
      [app_id |-> "com.a", version_name |-> "2.0", version_code |-> 2, apk_sha256 |-> "h2"],
      [app_id |-> "com.b", version_name |-> "1.0", version_code |-> 1, apk_sha256 |-> "h3"] }

LimitInit ==
    /\ lim_input \in [df : SeqsUpTo(GroupPool, MaxGroups), limit : (0 - 1)..MaxLimit]
    /\ lim_output = [NoResult EXCEPT !.status = "pending"]
    /\ CatalogIdle
    /\ PathIdle
    /\ RecipeIdle
    /\ ServiceIdle
    /\ ClassifierIdle
    /\ MatcherIdle
    /\ IngestIdle

\* One call of get_result_obj.
Materialize ==
    /\ lim_output.status = "pending"
    /\ lim_output' = [status |-> "returned",
                      value |-> GetResultObj(lim_input.df, lim_input.limit)]
    /\ UNCHANGED <<lim_input, catalogVars, pathVars, classifierVars, matcherVars, ingestVars, recipeVars,
                   serviceVars>>

(***************************************************************************)
(* The analysis runs over a store that holds committed packages.           *)
(***************************************************************************)
\* The packages: p1 and p2 are two builds of one version of com.a (they
\* differ in the fingerprint alone), p3 is a version of com.b.
Packages == {"p1", "p2", "p3"}

PackageInfo(p) ==
    CASE p = "p1" -> [app_id |-> "com.a", version_code |-> 1, version_name |-> "1.0",
                      apk_sha256 |-> "h1"]
      [] p = "p2" -> [app_id |-> "com.a", version_code |-> 1, version_name |-> "1.0",
                      apk_sha256 |-> "h2"]
      [] p = "p3" -> [app_id |-> "com.b", version_code |-> 2, version_name |-> "2.0",
                      apk_sha256 |-> "h3"]

\* "/smali/com/ex/M.smali", "/smali/org/t/N.smali", "/res/a.txt"
SmaliPathM == <<"/","s","m","a","l","i","/","c","o","m","/","e","x","/","M",".","s","m","a","l","i">>
SmaliPathN == <<"/","s","m","a","l","i","/","o","r","g","/","t","/","N",".","s","m","a","l","i">>
TextPath == <<"/","r","e","s","/","a",".","t","x","t">>

\* The files of each package.  p1: a manifest of two permission lines and
\* an application line, and a class with a url and a call.  p2: a manifest
\* whose permission line holds a name outside the pattern's class, and a
\* text file.  p3: a manifest that does not decode, and a class of five
\* const-string lines: a word, an https url, a url whose domain is in
\* capitals, a bare scheme, and a url without a path.
PackageFiles(p) ==
    CASE p = "p1" ->
            << [filename |-> ExtractedRoot \o ManifestPath,
                bytes |->
                    <<"<","u","s","e","s","-","p","e","r","m","i","s","s","i","o","n"," ","a","n","d","r","o",
      "i","d",":","n","a","m","e","=","\"","p",".","C","A","M","\"","/",">","LF","<","a","p",
      "p","l","i","c","a","t","i","o","n"," ","a","n","d","r","o","i","d",":","n","a","m","e",
      "=","\"","A","p","p","\"","/",">","LF","<","u","s","e","s","-","p","e","r","m","i","s",
      "s","i","o","n"," ","a","n","d","r","o","i","d",":","n","a","m","e","=","\"","p",".","X",
      "\"","/",">">>],
               [filename |-> ExtractedRoot \o SmaliPathM,
                bytes |->
                    <<"c","o","n","s","t","-","s","t","r","i","n","g"," ","v","0",","," ","\"","h","t","t","p",
      ":","/","/","a","d","s",".","e","x",".","c","o","m","/","x","\"","LF","i","n","v","o","k",
      "e"," ","C","a","m","e","r","a">>] >>
      [] p = "p2" ->
            << [filename |-> ExtractedRoot \o ManifestPath,
                bytes |-> <<"<","p","e","r","m","i","s","s","i","o","n"," ","a","n","d","r","o","i","d",":","n","a",
      "m","e","=","\"","x","-","y","\"","/",">">>],
               [filename |-> ExtractedRoot \o TextPath,
                bytes |-> <<"c","a","m","e","r","a">>] >>
      [] p = "p3" ->
            << [filename |-> ExtractedRoot \o ManifestPath,
                bytes |-> <<"xFF">>],
               [filename |-> ExtractedRoot \o SmaliPathN,
                bytes |->
                    <<"c","o","n","s","t","-","s","t","r","i","n","g"," ","v","1",","," ","\"",
                      "c","a","m","e","r","a","\"","LF","c","o","n","s","t","-","s","t","r","i",
                      "n","g"," ","v","0",","," ","\"","h","t","t","p","s",":","/","/","a","d",
                      "s",".","e","x","a","m","p","l","e",".","c","o","m","/","x","\"","LF","c",
                      "o","n","s","t","-","s","t","r","i","n","g"," ","v","2",","," ","\"","h",
                      "t","t","p",":","/","/","A","D","S",".","e","x",".","c","o","m","/","y",
                      "\"","LF","c","o","n","s","t","-","s","t","r","i","n","g"," ","v","3",",",
                      " ","\"","h","t","t","p",":","/","/","\"","LF","c","o","n","s","t","-",
                      "s","t","r","i","n","g"," ","v","4",","," ","\"","h","t","t","p","s",":",
                      "/","/","t",".","o","r","g","\"">>] >>

\* The store after write_as_parquet has committed package p.
CommitPackage(st, p) ==
    LET read == GetApkContentFileList(ExtractedRoot, PackageFiles(p))
        table == ContentTable(PackageInfo(p), [i \in 1..Len(read) |-> read[i].value[1]])
    IN  [st EXCEPT ![PackageInfo(p).app_id] = WriteToDataset(@, table)]

\* The store after the packages of a list were committed one after the other.
RECURSIVE CommitAll(_, _)
CommitAll(st, packages) ==
    IF packages = <<>> THEN st
    ELSE CommitAll(CommitPackage(st, Head(packages)), Tail(packages))

\* The stores the analysis is run over.
AnalysedStores ==
    { CommitAll([a \in AppIds |-> Absent], packages) :
        packages \in {<<>>, <<"p1">>, <<"p1", "p2">>, <<"p3">>, <<"p2", "p3", "p1">>} }

\* "camera", "Camera", "const", "XML", "com.ex", "a.txt"
TermCamera == <<"c","a","m","e","r","a">>
TermCapitalCamera == <<"C","a","m","e","r","a">>
TermConst == <<"c","o","n","s","t">>
ExtensionXml == <<"X","M","L">>
PackageComEx == <<"c","o","m",".","e","x">>
FilenameText == <<"a",".","t","x","t">>

\* The argument mappings of the calls.
PermissionScanArguments ==
    { NoArguments, "limit" :> 1, "limit" :> 0,
      "app_parquet_basenames" :> <<"com.b">>,
      "app_parquet_basenames" :> <<"com.a", "com.b">>,
      "app_parquet_basenames" :> <<"com.c">>,
      "bogus" :> 1 }

TrackerScanArguments ==
    { NoArguments, "tracker_list_name" :> "", "tracker_list_name" :> "exodus",
      "tracker_list_name" :> "other", "tracker_list_name" :> "unlisted",
      "tracker_list_name" :> "mixed",
      ("tracker_list_name" :> "exodus") @@ ("limit" :> 1),
      "limit" :> 1 }

TextSearchArguments ==
    { NoArguments, "search_terms" :> <<>>, "search_terms" :> <<TermCamera>>,
      ("search_terms" :> <<TermCapitalCamera>>) @@ ("case_sensitive" :> TRUE),
      "search_terms" :> <<TermCapitalCamera>>,
      "search_terms" :> <<TermConst, TermCamera>>,
      ("search_terms" :> <<TermCamera>>) @@ ("filename" :> FilenameText),
      ("search_terms" :> <<<<"a">>>>) @@ ("extensions" :> <<ExtensionXml>>) @@ ("limit" :> 1),
      ("search_terms" :> <<>>) @@ ("tracker_list_name" :> "exodus") }

CodeScanArguments ==
    { NoArguments, "search_terms" :> <<>>, "search_terms" :> <<TermCamera>>,
      ("search_terms" :> <<TermCamera>>) @@ ("package_name" :> PackageComEx),
      ("search_terms" :> <<TermConst>>) @@ ("with_inferred_developers" :> FALSE)
          @@ ("with_class_name" :> FALSE),
      ("search_terms" :> <<TermCapitalCamera>>) @@ ("case_sensitive" :> TRUE) @@ ("limit" :> 1),
      "package_name" :> PackageComEx }

\* The calls of analyse_apks: a worker without an analysis configuration,
\* no task name, a name without the prefix, a name with the prefix that
\* names no recipe, and each recipe with its argument mappings.
AnalysisCalls ==
    { [analysis_config |-> FALSE, task_name |-> <<"t","a","s","k","_","p","e","r","m","i","s","s","i","o","n","_","s","c","a","n">>,
       task_arguments |-> NoArguments],
      [analysis_config |-> TRUE, task_name |-> <<>>, task_arguments |-> NoArguments],
      [analysis_config |-> TRUE, task_name |-> <<"p","e","r","m","i","s","s","i","o","n","_","s","c","a","n">>,
       task_arguments |-> NoArguments],
      [analysis_config |-> TRUE, task_name |-> <<"t","a","s","k","_","u","n","k","n","o","w","n">>,
       task_arguments |-> NoArguments] }
    \cup [analysis_config : {TRUE}, task_name : {<<"t","a","s","k","_","p","e","r","m","i","s","s","i","o","n","_","s","c","a","n">>},
          task_arguments : PermissionScanArguments]
    \cup [analysis_config : {TRUE}, task_name : {<<"t","a","s","k","_","u","r","l","_","e","x","t","r","a","c","t","i","o","n">>},
          task_arguments : {NoArguments, "limit" :> 1}]
    \cup [analysis_config : {TRUE},
          task_name : {<<"t","a","s","k","_","t","r","a","c","k","e","r","_","c","l","a","s","s","n","a","m","e",
      "_","s","c","a","n">>, <<"t","a","s","k","_","t","r","a","c","k","e","r","_","d","o","m","a","i","n","_","s","c",
      "a","n">>},
          task_arguments : TrackerScanArguments]
    \cup [analysis_config : {TRUE}, task_name : {<<"t","a","s","k","_","t","e","x","t","_","s","e","a","r","c","h">>},
          task_arguments : TextSearchArguments]
    \cup [analysis_config : {TRUE}, task_name : {<<"t","a","s","k","_","c","o","d","e","_","s","c","a","n">>},
          task_arguments : CodeScanArguments]

AnalysisInit ==
    /\ store \in AnalysedStores
    /\ buffer = {}
    /\ archive = {}
    /\ pc = [c \in Callers |-> "done"]
    /\ call = [c \in Callers |-> NoCall]
    /\ result = [c \in Callers |-> "none"]
    /\ wrote = [c \in Callers |-> FALSE]
    /\ ClassifierIdle
    /\ MatcherIdle
    /\ CatalogIdle
    /\ PathIdle
    /\ LimitIdle
    /\ an_pc = [r \in Analysts |-> "idle"]
    /\ an_call = [r \in Analysts |-> NoAnalysisCall]
    /\ an_result = [r \in Analysts |-> NoOutcome]
    /\ an_read = [r \in Analysts |-> FALSE]
    /\ ServiceIdle

\* analyse_apks(task_name, task_arguments) from its entry to the recipe's
\* read of the store, or to its end when it ends before.
AnalyseApks(r) ==
    /\ an_pc[r] = "idle"
    /\ \E c \in AnalysisCalls :
          LET outcome == Dispatch(c.analysis_config, c.task_name, c.task_arguments)
          IN  /\ an_call' = [an_call EXCEPT ![r] = c]
              /\ IF outcome.status = "recipe"
                 THEN /\ an_pc' = [an_pc EXCEPT ![r] = "recipe"]
                      /\ UNCHANGED an_result
                 ELSE /\ an_pc' = [an_pc EXCEPT ![r] = "done"]
                      /\ an_result' = [an_result EXCEPT ![r] = outcome]
    /\ UNCHANGED <<an_read, catalogVars, pathVars, limitVars, classifierVars, matcherVars,
                   ingestVars, serviceVars>>

\* The recipe from read_parquets to its return, and the return of
\* analyse_apks.
RunRecipe(r) ==
    /\ an_pc[r] = "recipe"
    /\ LET recipe == GetAttr(an_call[r].task_name)
           task_arguments == an_call[r].task_arguments
       IN  /\ an_result' = [an_result EXCEPT ![r] = RecipeBody(recipe, task_arguments, store)]
           /\ store' = StoreAfterRead(store, Arg(task_arguments, "app_parquet_basenames",
                                                  DefaultBasenames))
    /\ an_read' = [an_read EXCEPT ![r] = TRUE]
    /\ an_pc' = [an_pc EXCEPT ![r] = "done"]
    /\ UNCHANGED <<an_call, buffer, archive, pc, call, result, wrote, catalogVars, pathVars,
                   limitVars, classifierVars, matcherVars, serviceVars>>

(***************************************************************************)
(* The fan-out of get_apk_content_file_list (apk_converter.py lines        *)
(* 111-123): one task per enumerated file, run by the processes of a       *)
(* multiprocessing Pool.  A process takes a task, runs                     *)
(* read_apk_content_file and puts the result on the pool's result queue;   *)
(* the pool's result handler stores each result at the place of its task,  *)
(* and starmap returns the list when every place is filled.                *)
(***************************************************************************)
\* The extraction roots the fan-out is run over: the three packages, a
\* root that holds the files of p1 and the text file of p2 with the
\* files enumerated in another order, an empty directory, and a path that
\* is no directory.
PoolInputs ==
    { [exists |-> TRUE, files |-> PackageFiles(p)] : p \in Packages }
    \cup { [exists |-> TRUE,
            files |-> <<PackageFiles("p2")[2], PackageFiles("p1")[2], PackageFiles("p1")[1]>>],
           [exists |-> TRUE, files |-> <<>>],
           [exists |-> FALSE, files |-> <<>>] }

PoolInit ==
    /\ IngestIdle /\ ClassifierIdle /\ MatcherIdle
    /\ CatalogIdle /\ PathIdle /\ LimitIdle /\ RecipeIdle /\ WorkerIdle
    /\ fl_pc = "idle"
    /\ fl_input \in PoolInputs
    /\ fl_task = <<>>
    /\ fl_held = [w \in PoolWorkers |-> 0]
    /\ fl_outqueue = <<>>
    /\ fl_value = <<>>
    /\ fl_output = NoFileList

\* Lines 118-122 up to the submission of the tasks: the check of the path,
\* the walk, and one task per file name.
EnumerateFiles ==
    /\ fl_pc = "idle"
    /\ IF fl_input.exists
       THEN /\ fl_pc' = "mapping"
            /\ fl_task' = [i \in 1..Len(fl_input.files) |-> "pending"]
            /\ fl_value' = [i \in 1..Len(fl_input.files) |-> None]
            /\ UNCHANGED fl_output
       ELSE /\ fl_pc' = "done"
            /\ fl_output' = [status |-> "raised", value |-> <<>>]
            /\ UNCHANGED <<fl_task, fl_value>>
    /\ UNCHANGED <<fl_input, fl_held, fl_outqueue, ingestVars, classifierVars, matcherVars,
                   catalogVars, pathVars, limitVars, recipeVars,
                   workerVars>>

\* A process of the pool that holds no task takes one that is waiting.
PoolTake(w) ==
    /\ fl_pc = "mapping"
    /\ fl_held[w] = 0
    /\ \E i \in 1..Len(fl_task) :
          /\ fl_task[i] = "pending"
          /\ fl_task' = [fl_task EXCEPT ![i] = "running"]
          /\ fl_held' = [fl_held EXCEPT ![w] = i]
    /\ UNCHANGED <<fl_pc, fl_input, fl_outqueue, fl_value, fl_output, ingestVars, classifierVars,
                   matcherVars, catalogVars, pathVars, limitVars, recipeVars,
                   workerVars>>

\* The process runs read_apk_content_file on the file of its task and puts
\* the number of the task and the result on the result queue.
PoolFinish(w) ==
    /\ fl_held[w] # 0
    /\ LET i == fl_held[w]
           file == fl_input.files[i]
       IN  /\ fl_outqueue' = Append(fl_outqueue,
                                     [task |-> i,
                                      result |-> ReadApkContentFile(file.filename, ExtractedRoot,
                                                                    file.bytes)])
           /\ fl_task' = [fl_task EXCEPT ![i] = "done"]
    /\ fl_held' = [fl_held EXCEPT ![w] = 0]
    /\ UNCHANGED <<fl_pc, fl_input, fl_value, fl_output, ingestVars, classifierVars,
                   matcherVars, catalogVars, pathVars, limitVars, recipeVars,
                   workerVars>>

\* The number of results the result handler has stored.
Handled(values) == Cardinality({i \in 1..Len(values) : values[i] # None})

\* The result handler takes the next result off the queue and stores it at
\* the place of its task.
HandleResult ==
    /\ Handled(fl_value) < Len(fl_outqueue)
    /\ LET item == fl_outqueue[Handled(fl_value) + 1]
       IN  fl_value' = [fl_value EXCEPT ![item.task] = Some(item.result)]
    /\ UNCHANGED <<fl_pc, fl_input, fl_task, fl_held, fl_outqueue, fl_output, ingestVars,
                   classifierVars, matcherVars, catalogVars, pathVars, limitVars, recipeVars,
                   workerVars>>

\* A mutant: the map is taken as ready once one result is stored.
MapReadyAtFirst(values) == values = <<>> \/ \E i \in 1..Len(values) : values[i] # None

\* starmap waits until every task has its result.
MapReady(values) == \A i \in 1..Len(values) : values[i] # None

\* The results stored, in the order of their tasks.
Collected(values) ==
    LET stored == SelectSeq(values, LAMBDA v : v # None)
    IN  [i \in 1..Len(stored) |-> stored[i][1]]

\* Lines 122-123: starmap returns the list of the results, or raises when a
\* task raised; the list is handed to the caller.
StarmapReturn ==
    /\ fl_pc = "mapping"
    /\ MapReady(fl_value)
    /\ LET results == Collected(fl_value)
       IN  fl_output' =
               IF \E i \in 1..Len(results) : results[i].raised
               THEN [status |-> "raised", value |-> <<>>]
               ELSE [status |-> "returned",
                     value |-> [i \in 1..Len(results) |-> results[i].value[1]]]
    /\ fl_pc' = "done"
    /\ UNCHANGED <<fl_input, fl_task, fl_held, fl_outqueue, fl_value, ingestVars,
                   classifierVars, matcherVars, catalogVars, pathVars, limitVars, recipeVars,
                   workerVars>>

(***************************************************************************)
(* The worker's threads: the daemon threads of run_task_daemon, one per    *)
(* action, and the thread of the hub connection, which runs the callbacks  *)
(* of lines 67-69 one after the other.                                     *)
(***************************************************************************)
nonWorkerVars ==
    <<ingestVars, classifierVars, matcherVars, catalogVars, pathVars, limitVars, recipeVars,
      poolVars>>

WorkerInit ==
    /\ IngestIdle /\ ClassifierIdle /\ MatcherIdle
    /\ CatalogIdle /\ PathIdle /\ LimitIdle /\ RecipeIdle /\ PoolIdle
    /\ WorkerConstructed

\* A mutant: get() returns the item that was put first.
SmallestOldest(queue) == 1

\* The item of a PriorityQueue that get() returns: the smallest tuple
\* (priority, (task_id, task_arguments_json_str)).
Smallest(queue) ==
    CHOOSE k \in 1..Len(queue) :
        \A j \in 1..Len(queue) :
            \/ queue[k].priority < queue[j].priority
            \/ /\ queue[k].priority = queue[j].priority
               /\ TaskRank(queue[k].task_id) <= TaskRank(queue[j].task_id)

\* The queue without its k-th item.
Without(queue, k) == SubSeq(queue, 1, k - 1) \o SubSeq(queue, k + 1, Len(queue))

\* Line 85: get() returns when the queue of the thread's action holds an item.
Dequeue(th) ==
    /\ wk_thread[th].pc = "get"
    /\ wk_queue[th[1]] # <<>>
    /\ LET k == Smallest(wk_queue[th[1]])
           item == wk_queue[th[1]][k]
       IN  /\ wk_queue' = [wk_queue EXCEPT ![th[1]] = Without(@, k)]
           /\ wk_thread' = [wk_thread EXCEPT ![th] = [@ EXCEPT !.pc = "inc_read",
                                                                 !.task = item.task_id]]
           /\ wk_task' = [wk_task EXCEPT ![TaskRank(item.task_id)].dequeued = TRUE]
    /\ UNCHANGED <<wk_busy, wk_lock, wk_hub, wk_conn, nonWorkerVars>>

\* Line 86, self.busy_threads += 1, is a read of the attribute ...
IncRead(th) ==
    /\ wk_thread[th].pc = "inc_read"
    /\ wk_thread' = [wk_thread EXCEPT ![th] = [@ EXCEPT !.pc = "inc_write", !.loaded = wk_busy]]
    /\ UNCHANGED <<wk_queue, wk_busy, wk_lock, wk_hub, wk_conn, wk_task, nonWorkerVars>>

\* ... and a write of the sum; no lock is held between the two.
IncWrite(th) ==
    /\ wk_thread[th].pc = "inc_write"
    /\ wk_busy' = wk_thread[th].loaded + 1
    /\ wk_thread' = [wk_thread EXCEPT ![th] = [@ EXCEPT !.pc = "run", !.loaded = 0]]
    /\ UNCHANGED <<wk_queue, wk_lock, wk_hub, wk_conn, wk_task, nonWorkerVars>>

\* Lines 97-113 of run_task, which are outside its try: json.loads, the
\* check of the required parameters, getattr.  An exception raised here
\* leaves run_task and the loop of run_task_daemon, and the thread ends.
StartTask(th) ==
    /\ wk_thread[th].pc = "run"
    /\ LET task == wk_task[TaskRank(wk_thread[th].task)]
           task_arguments == JsonLoads(task.arguments)
           action_info == GetActionInfoByName(th[1])
       IN  wk_thread' = [wk_thread EXCEPT ![th] =
               IF task_arguments.raised \/ task_arguments.type # "dict"
               THEN [@ EXCEPT !.pc = "ended"]
               ELSE IF ~(action_info.required_parameters \subseteq task_arguments.keys)
                    THEN [@ EXCEPT !.pc = "lock", !.error = "Missing required parameters"]
                    ELSE [@ EXCEPT !.pc = "op"]]
    /\ UNCHANGED <<wk_queue, wk_busy, wk_lock, wk_hub, wk_conn, wk_task, nonWorkerVars>>

\* How the op and the upload of its result may end.
OpOutcomes == {"returned", "raised"}
UploadOutcomes == {"200", "500", "failed"}

\* A mutant: a task is completed without error however it ended.
CompletionErrorNever(op, upload) == "null"

\* The error argument of the CompleteTask that ends a task: None ("null")
\* when the op returned and the upload answered 200 (lines 121-124), an
\* error message in the other cases (lines 126-129).
CompletionError(op, upload) ==
    IF op = "raised" THEN "op raised"
    ELSE IF upload = "200" THEN "null"
    ELSE "Result upload error"

\* Lines 115-129 up to the lock: the op is called; when it returns, its
\* result is posted.
CallOp(th) ==
    /\ wk_thread[th].pc = "op"
    /\ \E op \in OpOutcomes, upload \in UploadOutcomes :
          /\ wk_task' = [wk_task EXCEPT ![TaskRank(wk_thread[th].task)] =
                            [@ EXCEPT !.op = op,
                                      !.upload = IF op = "returned" THEN upload ELSE "none"]]
          /\ wk_thread' = [wk_thread EXCEPT ![th] =
                              [@ EXCEPT !.pc = "lock", !.error = CompletionError(op, upload)]]
    /\ UNCHANGED <<wk_queue, wk_busy, wk_lock, wk_hub, wk_conn, nonWorkerVars>>

\* with self.hub_lock (lines 123 and 135): the thread enters hub.send.
AcquireLock(th) ==
    /\ wk_thread[th].pc = "lock"
    /\ wk_lock = "free"
    /\ wk_lock' = "daemon"
    /\ wk_thread' = [wk_thread EXCEPT ![th] = [@ EXCEPT !.pc = "send"]]
    /\ UNCHANGED <<wk_queue, wk_busy, wk_hub, wk_conn, wk_task, nonWorkerVars>>

\* hub.send("CompleteTask", [task_id, error]) returns and the lock is
\* released; run_task returns.
SendCompleteTask(th) ==
    /\ wk_thread[th].pc = "send"
    /\ wk_task' = [wk_task EXCEPT ![TaskRank(wk_thread[th].task)].completes =
                      Append(@, wk_thread[th].error)]
    /\ wk_lock' = "free"
    /\ wk_thread' = [wk_thread EXCEPT ![th] = [@ EXCEPT !.pc = "dec_read", !.error = ""]]
    /\ UNCHANGED <<wk_queue, wk_busy, wk_hub, wk_conn, nonWorkerVars>>

\* Lines 88-89: task_done(), and the read of self.busy_threads -= 1 ...
DecRead(th) ==
    /\ wk_thread[th].pc = "dec_read"
    /\ wk_thread' = [wk_thread EXCEPT ![th] = [@ EXCEPT !.pc = "dec_write", !.loaded = wk_busy]]
    /\ UNCHANGED <<wk_queue, wk_busy, wk_lock, wk_hub, wk_conn, wk_task, nonWorkerVars>>

\* ... and its write; then the sleep of lines 90-91 and the next get().
DecWrite(th) ==
    /\ wk_thread[th].pc = "dec_write"
    /\ wk_busy' = wk_thread[th].loaded - 1
    /\ wk_thread' = [wk_thread EXCEPT ![th] = IdleThread]
    /\ UNCHANGED <<wk_queue, wk_lock, wk_hub, wk_conn, wk_task, nonWorkerVars>>

\* on_open (line 64): the connection opens and RegisterWorker is sent.
OnOpen ==
    /\ wk_conn = "closed"
    /\ wk_hub.pc = "idle"
    /\ wk_conn' = "open"
    /\ wk_hub' = [wk_hub EXCEPT !.pc = "send", !.method = "RegisterWorker"]
    /\ UNCHANGED <<wk_queue, wk_thread, wk_busy, wk_lock, wk_task, nonWorkerVars>>

\* WorkerRegistered (lines 67 and 141-144): the flag is set and
\* GetPendingTasks is sent.
OnWorkerRegistered ==
    /\ wk_conn = "open"
    /\ wk_hub.pc = "idle"
    /\ wk_conn' = "registered"
    /\ wk_hub' = [wk_hub EXCEPT !.pc = "send", !.method = "GetPendingTasks"]
    /\ UNCHANGED <<wk_queue, wk_thread, wk_busy, wk_lock, wk_task, nonWorkerVars>>

\* A hub.send of the callback thread that holds no lock returns.
HubSendReturns ==
    /\ wk_hub.pc = "send"
    /\ wk_hub' = IdleHub
    /\ UNCHANGED <<wk_queue, wk_thread, wk_busy, wk_lock, wk_conn, wk_task, nonWorkerVars>>

\* The lists of pending tasks the service sends.
PendingLists ==
    { <<>>,
      <<[Id |-> "p1", Action |-> "unknown_action"]>>,
      <<[Id |-> "p1", Action |-> "convert_and_move_apk"],
        [Id |-> "p2", Action |-> "unknown_action"],
        [Id |-> "p3", Action |-> "convert_and_move_apk"],
        [Id |-> "p4", Action |-> "convert_and_move_apk"],
        [Id |-> "p5", Action |-> "analyse_apks"]>> }

\* PendingTasks (lines 147-152): the list is parsed and the counts are set
\* to zero.
OnPendingTasks ==
    /\ wk_conn = "registered"
    /\ wk_hub.pc = "idle"
    /\ \E pending_tasks \in PendingLists :
          wk_hub' = [IdleHub EXCEPT !.pc = "pending", !.list = pending_tasks, !.index = 1]
    /\ UNCHANGED <<wk_queue, wk_thread, wk_busy, wk_lock, wk_conn, wk_task, nonWorkerVars>>

\* A mutant: the soft limit is three times max_threads.
SoftLimitTriple(action_info) == action_info.max_threads * 3

\* soft queue size limit: max_threads * 2 (line 159)
SoftLimit(action_info) == action_info.max_threads * 2

\* Lines 153-162: one turn of the loop over the pending tasks, with the
\* size the queue has at this moment.
PendingStep ==
    /\ wk_hub.pc = "pending"
    /\ wk_hub.index <= Len(wk_hub.list)
    /\ LET pending_task == wk_hub.list[wk_hub.index]
           action == pending_task.Action
       IN  wk_hub' =
               IF action \notin SupportedActions
               THEN [wk_hub EXCEPT !.index = @ + 1]
               ELSE IF wk_hub.counts[action] + Len(wk_queue[action])
                          >= SoftLimit(GetActionInfoByName(action))
                    THEN [wk_hub EXCEPT !.index = @ + 1]
                    ELSE [wk_hub EXCEPT !.index = @ + 1,
                                        !.counts[action] = @ + 1,
                                        !.takeup = Append(@, pending_task.Id)]
    /\ UNCHANGED <<wk_queue, wk_thread, wk_busy, wk_lock, wk_conn, wk_task, nonWorkerVars>>

\* Lines 163-168: TakeupTasks is sent when a task id was selected.
PendingEnd ==
    /\ wk_hub.pc = "pending"
    /\ wk_hub.index > Len(wk_hub.list)
    /\ wk_hub' = IF Len(wk_hub.takeup) > 0
                 THEN [wk_hub EXCEPT !.pc = "send", !.method = "TakeupTasks"]
                 ELSE IdleHub
    /\ UNCHANGED <<wk_queue, wk_thread, wk_busy, wk_lock, wk_conn, wk_task, nonWorkerVars>>

\* The task ids not yet assigned; the service assigns them in order.
NextTask == Cardinality({t \in 1..Len(TaskIds) : wk_task[t].assigned}) + 1

\* AssignTask (lines 171-178): the task is put on the queue of its action,
\* or refused through task_error_raised.
OnAssignTask ==
    /\ wk_conn = "registered"
    /\ wk_hub.pc = "idle"
    /\ NextTask <= Len(TaskIds)
    /\ \E action_name \in AssignedActions, json_str \in ArgumentStrings, priority \in Priorities :
          LET supported == action_name \in SupportedActions
          IN  /\ wk_task' = [wk_task EXCEPT ![NextTask] =
                                [NoTask EXCEPT !.assigned = TRUE, !.action = action_name,
                                               !.arguments = json_str, !.priority = priority,
                                               !.enqueued = supported]]
              /\ IF supported
                 THEN /\ wk_queue' = [wk_queue EXCEPT ![action_name] =
                                         Append(@, [priority |-> priority,
                                                    task_id |-> TaskIds[NextTask]])]
                      /\ UNCHANGED wk_hub
                 ELSE /\ wk_hub' = [wk_hub EXCEPT !.pc = "lock", !.task = TaskIds[NextTask]]
                      /\ UNCHANGED wk_queue
    /\ UNCHANGED <<wk_thread, wk_busy, wk_lock, wk_conn, nonWorkerVars>>

\* task_error_raised on the callback thread: with self.hub_lock ...
HubAcquireLock ==
    /\ wk_hub.pc = "lock"
    /\ wk_lock = "free"
    /\ wk_lock' = "hub"
    /\ wk_hub' = [wk_hub EXCEPT !.pc = "send_locked", !.method = "CompleteTask"]
    /\ UNCHANGED <<wk_queue, wk_thread, wk_busy, wk_conn, wk_task, nonWorkerVars>>

\* ... hub.send("CompleteTask", [task_id, error_message]) returns and the
\* lock is released.
HubSendCompleteTask ==
    /\ wk_hub.pc = "send_locked"
    /\ wk_task' = [wk_task EXCEPT ![TaskRank(wk_hub.task)].completes =
                      Append(@, "Action not supported by the assigned worker")]
    /\ wk_lock' = "free"
    /\ wk_hub' = IdleHub
    /\ UNCHANGED <<wk_queue, wk_thread, wk_busy, wk_conn, nonWorkerVars>>

(***************************************************************************)
(* Specifications.                                                         *)
(***************************************************************************)
Init == IngestInit /\ ClassifierIdle /\ MatcherIdle /\ AnalysisIdle

\* Callers of the store run concurrently (several workers, or several
\* users of the converter, on one Parquet base path).
Next ==
    \E c \in Callers :
        \/ CallWriteAsParquet(c)
        \/ ConvertAndMoveApk(c)
        \/ CommitCheck(c)
        \/ CommitWrite(c)
        \/ CamFinish(c)

Spec == Init /\ [][Next]_vars

\* One call at a time: a call starts only when no other is under way (one
\* worker, whose convert_and_move_apk queue is served by a single thread).
SeqNext ==
    \E c \in Callers :
        \/ Quiet /\ CallWriteAsParquet(c)
        \/ Quiet /\ ConvertAndMoveApk(c)
        \/ CommitCheck(c)
        \/ CommitWrite(c)
        \/ CamFinish(c)

SeqSpec == Init /\ [][SeqNext]_vars

ClassifySpec == ClassifyInit /\ [][ReadFile]_vars

MatchSpec == MatchInit /\ [][Identify]_vars

DisambigSpec == DisambigInit /\ [][Identify]_vars

CatalogSpec == CatalogInit /\ [][BuildLookup]_vars

PathSpec == PathInit /\ [][DerivePath]_vars

LimitSpec == LimitInit /\ [][Materialize]_vars

\* Runs of analyse_apks that may overlap, over a store nothing is being
\* committed to.
AnalysisNext == \E r \in Analysts : AnalyseApks(r) \/ RunRecipe(r)

AnalysisSpec == AnalysisInit /\ [][AnalysisNext]_vars

\* One call of get_apk_content_file_list, the processes of its pool running
\* side by side.
PoolNext ==
    \/ EnumerateFiles
    \/ \E w \in PoolWorkers : PoolTake(w) \/ PoolFinish(w)
    \/ HandleResult
    \/ StarmapReturn

PoolSpec == PoolInit /\ [][PoolNext]_vars

\* One worker: its daemon threads and the callback thread of its hub
\* connection, running side by side.
WorkerNext ==
    \/ \E th \in DaemonThreads :
          \/ Dequeue(th) \/ IncRead(th) \/ IncWrite(th) \/ StartTask(th) \/ CallOp(th)
          \/ AcquireLock(th) \/ SendCompleteTask(th) \/ DecRead(th) \/ DecWrite(th)
    \/ OnOpen \/ OnWorkerRegistered \/ HubSendReturns
    \/ OnPendingTasks \/ PendingStep \/ PendingEnd
    \/ OnAssignTask \/ HubAcquireLock \/ HubSendCompleteTask

WorkerSpec == WorkerInit /\ [][WorkerNext]_vars

\* The same worker with its threads scheduled fairly: a daemon thread that
\* can take a step takes one, a thread that keeps finding hub_lock free
\* gets it, and the callback thread ends the handler it has begun.  What
\* the service sends, and when, is left open.
WorkerFairness ==
    /\ \A th \in DaemonThreads :
          /\ WF_vars(Dequeue(th) \/ IncRead(th) \/ IncWrite(th) \/ StartTask(th) \/ CallOp(th)
                       \/ SendCompleteTask(th) \/ DecRead(th) \/ DecWrite(th))
          /\ SF_vars(AcquireLock(th))
    /\ WF_vars(HubSendReturns \/ PendingStep \/ PendingEnd \/ HubSendCompleteTask)
    /\ SF_vars(HubAcquireLock)

WorkerLiveSpec == WorkerSpec /\ WorkerFairness


(***************************************************************************)
(* Properties of the content store.                                        *)
(***************************************************************************)
\* The number of batches of partition a that hold a row of package h.
CommitCount(a, h) ==
    Cardinality({ i \in 1..Len(store[a].batches) :
                    \E j \in 1..Len(store[a].batches[i]) :
                        store[a].batches[i][j].apk_sha256 = h })

\* Package h stands committed in partition a: the partition was written by
\* write_as_parquet (it has the full schema) and holds rows of h.
Committed(a, h) ==
    /\ store[a].exists
    /\ store[a].columns = AllFields
    /\ CommitCount(a, h) >= 1

IsPrefix(s, t) == Len(s) <= Len(t) /\ SubSeq(t, 1, Len(s)) = s

\* C1 -- Dedup: when a package with fingerprint F stands committed under
\* app_id A, the check of an Append whose descriptor has fingerprint F and
\* app_id A ends the call with the duplicate-package error, and the store is
\* the same after the step as before it; the call never writes.
C1_DedupAppendFails ==
    [][\A c \in Callers :
          ( /\ pc[c] = "check"
            /\ pc'[c] # "check"
            /\ call[c].append_if_exists
            /\ Committed(call[c].apk_basicinfo.app_id, call[c].apk_basicinfo.apk_sha256) )
          => ( /\ pc'[c] = "done"
               /\ result'[c] = "DuplicatePackageError"
               /\ store' = store
               /\ ~wrote'[c] )]_vars

\* C1 witness: a package was committed by one caller and the Append of the
\* same fingerprint and app_id by another caller has failed as a duplicate.
C1_Witness ==
    \E c, d \in Callers :
        /\ c # d
        /\ wrote[d] /\ result[d] = "ok"
        /\ result[c] = "DuplicatePackageError" /\ ~wrote[c]
        /\ call[c].apk_basicinfo = call[d].apk_basicinfo
        /\ CommitCount(call[c].apk_basicinfo.app_id, call[c].apk_basicinfo.apk_sha256) = 1

\* C2 -- when every commit made is an Append, a fingerprint is committed at
\* most once in a partition, whatever the interleaving of the callers.
C2_AppendsCommitOnce ==
    (\A c \in Callers : call[c].append_if_exists)
        => \A a \in AppIds, h \in ApkHashes : CommitCount(a, h) <= 1

\* C3 -- an ingestion call (convert_and_move_apk) that ended with an error
\* has written no row to the store.
C3_FailedIngestionWroteNothing ==
    \A c \in Callers :
        ( /\ call[c].op = "convert_and_move_apk"
          /\ pc[c] = "done"
          /\ result[c] # "ok" )
        => ~wrote[c]

\* C4 -- the check of an Append to an existing partition whose stored schema
\* lacks a field of the two data models ends the call with the schema error,
\* also when the partition holds the fingerprint; the store is unchanged and
\* the call never writes.
C4_SchemaErrorFirst ==
    [][\A c \in Callers :
          ( /\ pc[c] = "check"
            /\ pc'[c] # "check"
            /\ call[c].append_if_exists
            /\ store[call[c].apk_basicinfo.app_id].exists
            /\ ~(AllFields \subseteq store[call[c].apk_basicinfo.app_id].columns) )
          => ( /\ pc'[c] = "done"
               /\ result'[c] = "SchemaError"
               /\ store' = store
               /\ ~wrote'[c] )]_vars

\* C4 witness: an Append ended with the schema error on a partition that
\* lacks a column and holds the call's fingerprint.
C4_Witness ==
    \E c \in Callers :
        /\ result[c] = "SchemaError" /\ pc[c] = "done" /\ ~wrote[c]
        /\ "file_sha256" \notin store[call[c].apk_basicinfo.app_id].columns
        /\ CommitCount(call[c].apk_basicinfo.app_id, call[c].apk_basicinfo.apk_sha256) = 1

\* The step removes partition a for an Overwrite commit.
OverwriteRemoves(a) ==
    \E c \in Callers :
        /\ pc[c] = "check" /\ pc'[c] = "write"
        /\ ~call[c].append_if_exists
        /\ call[c].apk_basicinfo.app_id = a

\* C5 -- Append-only: in every step that is not the removal of an Overwrite
\* of the same app_id, the rows of a partition stay, unmodified and in
\* place; and the write of an Append of package P to app_id A makes the rows
\* of A the previous rows of A followed by the rows of P.
C5_AppendOnly ==
    [][ /\ \A a \in AppIds :
              OverwriteRemoves(a) \/ IsPrefix(ReadTable(store[a]), ReadTable(store'[a]))
        /\ \A c \in Callers :
              (pc[c] = "write" /\ pc'[c] # "write" /\ call[c].append_if_exists)
              => LET a == call[c].apk_basicinfo.app_id
                 IN  ReadTable(store'[a]) =
                        ReadTable(store[a])
                          \o ContentTable(call[c].apk_basicinfo, call[c].content_file_list)
      ]_vars

\* C5 witness: two Appends of different packages to one app_id succeeded
\* and the partition holds both.
C5_Witness ==
    \E c, d \in Callers :
        /\ c # d
        /\ wrote[c] /\ wrote[d] /\ result[c] = "ok" /\ result[d] = "ok"
        /\ call[c].append_if_exists /\ call[d].append_if_exists
        /\ call[c].apk_basicinfo.app_id = call[d].apk_basicinfo.app_id
        /\ call[c].apk_basicinfo.apk_sha256 # call[d].apk_basicinfo.apk_sha256
        /\ Len(store[call[c].apk_basicinfo.app_id].batches) = 2

\* C6 -- Overwrite commit: whatever the partition of descriptor.app_id
\* holds (the same fingerprint, an incomplete schema), the first step removes
\* it without any error, and after the write the partition holds exactly the
\* rows of the committed package, with the full schema.
C6_OverwriteReplaces ==
    [][\A c \in Callers :
          LET a == call[c].apk_basicinfo.app_id
          IN  /\ (pc[c] = "check" /\ pc'[c] # "check" /\ ~call[c].append_if_exists)
                 => ( /\ pc'[c] = "write"
                      /\ result'[c] = "none"
                      /\ store'[a] = Absent )
              /\ (pc[c] = "write" /\ pc'[c] # "write" /\ ~call[c].append_if_exists)
                 => ( /\ result'[c] = "ok"
                      /\ store'[a].exists
                      /\ store'[a].columns = AllFields
                      /\ ReadTable(store'[a]) =
                            ContentTable(call[c].apk_basicinfo, call[c].content_file_list) )
      ]_vars

\* C6 witness: an Overwrite succeeded on a partition that another call had
\* appended the same fingerprint to, and the partition holds one batch.
C6_Witness ==
    \E c, d \in Callers :
        /\ c # d
        /\ ~call[c].append_if_exists /\ result[c] = "ok" /\ wrote[c]
        /\ call[d].append_if_exists /\ result[d] = "ok" /\ wrote[d]
        /\ call[c].apk_basicinfo = call[d].apk_basicinfo
        /\ Len(store[call[c].apk_basicinfo.app_id].batches) = 1


(***************************************************************************)
(* Properties of the classifier.                                           *)
(***************************************************************************)
\* The bytes decode as text.
DecodesAsText(b) == \A i \in 1..Len(b) : b[i] # "xFF"

\* C7 -- classification: the record returned for a file has content_mode
\* text exactly when its lower-cased extension is in the allow-list and the
\* file's bytes decode as text, and blob otherwise; in text mode content_text
\* is the decoded content and content_blob is None; in blob mode content_blob
\* is the raw bytes and content_text is None.
C7_Classification ==
    cf_output.status = "returned" =>
        LET r == cf_output.value[1]
            b == cf_input.bytes
        IN  /\ r.content_mode \in {"text", "blob"}
            /\ (r.content_mode = "text")
                  <=> (Lower(r.extension) \in ext_store_as_text /\ DecodesAsText(b))
            /\ r.content_mode = "text"
                  => (r.content_text = Some(UniversalNewlines(b)) /\ r.content_blob = None)
            /\ r.content_mode = "blob"
                  => (r.content_blob = Some(b) /\ r.content_text = None)

\* C7 witness: a file whose extension is in the allow-list only after case
\* folding was read as text.
C7_Witness ==
    /\ cf_output.status = "returned"
    /\ cf_output.value[1].content_mode = "text"
    /\ cf_output.value[1].extension \notin ext_store_as_text
    /\ cf_input.bytes # <<>>

\* C8 -- a call of read_apk_content_file never ends with an error; when the
\* extension is in the allow-list and the bytes do not decode, the record is
\* in blob mode and carries the raw bytes; file_sha256 is the hash of the raw
\* bytes in both modes.
C8_DecodeFailureFallsBack ==
    cf_output.status # "pending" =>
        /\ cf_output.status = "returned"
        /\ cf_output.value[1].file_sha256 = Sha256(cf_input.bytes)
        /\ (Lower(cf_output.value[1].extension) \in ext_store_as_text
              /\ ~DecodesAsText(cf_input.bytes))
           => ( /\ cf_output.value[1].content_mode = "blob"
                /\ cf_output.value[1].content_blob = Some(cf_input.bytes) )

\* C8 witness: a file with an allow-list extension whose bytes do not decode
\* came back as a blob record.
C8_Witness ==
    /\ cf_output.status = "returned"
    /\ cf_output.value[1].extension \in ext_store_as_text
    /\ ~DecodesAsText(cf_input.bytes)
    /\ cf_output.value[1].content_mode = "blob"

(***************************************************************************)
(* Properties of the matcher.                                              *)
(***************************************************************************)
\* The line as the matcher tests it (lines 407-408).
FoldedLine ==
    IF m_input.case_insensitive THEN Lower(m_input.line) ELSE m_input.line

\* How the criterion at index i of the input list tests against the line.
TestAt(i) ==
    TestCriterion(FoldedLine, FoldCriterion(m_input.criterion_list[i], m_input.case_insensitive))

Indices == 1..Len(m_input.criterion_list)
Matching == {i \in Indices : TestAt(i) = "match"}
Malformed == {i \in Indices : TestAt(i) = "error"}
Least(S) == CHOOSE i \in S : \A j \in S : i <= j

\* C9 as stated -- the call returns the criterion with the smallest index
\* among those that match the target.
C9_FirstMatchReturned ==
    (m_output.status # "pending" /\ Matching # {})
        => m_output = [status |-> "returned",
                       value |-> Some(m_input.criterion_list[Least(Matching)])]

\* C9 amended -- the call returns the criterion with the smallest index
\* among those that match the target when no criterion at a smaller index is
\* a malformed pattern, and raises when one is.
C9_FirstMatchWins ==
    (m_output.status # "pending" /\ Matching # {})
        => IF \E i \in Malformed : i < Least(Matching)
           THEN m_output.status = "raised"
           ELSE m_output = [status |-> "returned",
                            value |-> Some(m_input.criterion_list[Least(Matching)])]

\* C9 witness: of three criteria the first is a literal that does not match,
\* the second holds a metacharacter and matches, the third is a literal that
\* matches too; the second was returned.
C9_Witness ==
    /\ Len(m_input.criterion_list) = 3
    /\ ~CriterionIsRegex(Lower(m_input.criterion_list[1])) /\ TestAt(1) = "no match"
    /\ CriterionIsRegex(Lower(m_input.criterion_list[2])) /\ TestAt(2) = "match"
    /\ ~CriterionIsRegex(Lower(m_input.criterion_list[3])) /\ TestAt(3) = "match"
    /\ m_input.criterion_list[2] # m_input.criterion_list[3]
    /\ m_output = [status |-> "returned", value |-> Some(m_input.criterion_list[2])]

\* C10 as stated -- a returned criterion is a matching member of the list
\* in its original case, and the call returns None when no criterion matches.
C10_OriginalCaseOrNone ==
    m_output.status # "pending" =>
        /\ (m_output.status = "returned" /\ m_output.value # None)
              => \E i \in Matching : m_output.value[1] = m_input.criterion_list[i]
        /\ Matching = {} => m_output = [status |-> "returned", value |-> None]

\* C10 amended -- a returned criterion is a matching member of the list in
\* its original case; when no criterion matches, the call returns None if no
\* criterion is a malformed pattern and raises if one is.
C10_OriginalCaseNoneOrRaise ==
    m_output.status # "pending" =>
        /\ (m_output.status = "returned" /\ m_output.value # None)
              => \E i \in Matching : m_output.value[1] = m_input.criterion_list[i]
        /\ (Matching = {} /\ Malformed = {})
              => m_output = [status |-> "returned", value |-> None]
        /\ (Matching = {} /\ Malformed # {}) => m_output.status = "raised"

\* C10 witness: a criterion with an upper-case letter, which matches the
\* line only after case folding, was returned as written.
C10_Witness ==
    /\ m_output.status = "returned" /\ m_output.value # None
    /\ Lower(m_output.value[1]) # m_output.value[1]
    /\ TestCriterion(m_input.line, m_output.value[1]) = "no match"
    /\ TestCriterion(FoldedLine, Lower(m_output.value[1])) = "match"


\* The characters of a criterion that stand for themselves once the dots
\* are escaped: letters, the dot and "=".
LiteralAfterEscape(criterion) ==
    \A i \in 1..Len(criterion) : criterion[i] \notin {"*", "\\"}

\* The test C11 describes for one criterion, as tested (folded): substring
\* containment when it holds no member of the metacharacter set; otherwise
\* a pattern search in which every dot of the criterion stands for a dot.
ExpectedTest(line, criterion) ==
    IF ~(\E sign \in regex_signs : Contains(criterion, sign))
    THEN IF Contains(line, criterion) THEN "match" ELSE "no match"
    ELSE IF LiteralAfterEscape(criterion)
         THEN IF Contains(line, criterion) THEN "match" ELSE "no match"
         ELSE LET compiled == ReCompile(EscapeDots(criterion))
              IN  IF compiled.error THEN "error"
                  ELSE IF ReSearch(compiled.items, line) THEN "match" ELSE "no match"

ExpectedAt(i) ==
    ExpectedTest(FoldedLine, FoldCriterion(m_input.criterion_list[i], m_input.case_insensitive))

\* The indices whose criterion decides the call: it matches or is malformed.
Deciding == {i \in Indices : ExpectedAt(i) # "no match"}

ListedKeys(field) ==
    UNION { {cat_input[t][field][k] : k \in 1..Len(cat_input[t][field])} : t \in 1..Len(cat_input) }

FirstLister(field, key) ==
    Least({t \in 1..Len(cat_input) :
              \E k \in 1..Len(cat_input[t][field]) : cat_input[t][field][k] = key})

\* The map holds every listed key once, and no other, each with the name of
\* the first entry that lists it.
FirstWins(map, field) ==
    /\ {map[i].key : i \in 1..Len(map)} = ListedKeys(field)
    /\ \A i, j \in 1..Len(map) : map[i].key = map[j].key => i = j
    /\ \A i \in 1..Len(map) : map[i].value = cat_input[FirstLister(field, map[i].key)].name

\* C12 -- catalog first-wins: both lookup maps hold every key of every
\* entry, mapped to the name of the first entry in catalog order that lists
\* it.
C12_CatalogFirstWins ==
    cat_output.status = "returned" =>
        /\ FirstWins(cat_output.domain_map, "domain_names")
        /\ FirstWins(cat_output.classname_map, "class_signatures")

\* C12 witness: a domain listed by two entries with different names, the
\* second listing it first in its own list, is mapped to the first entry.
C12_Witness ==
    /\ cat_output.status = "returned"
    /\ Len(cat_input) >= 2
    /\ cat_input[1].name = "A" /\ cat_input[2].name = "B"
    /\ DictHasKey(cat_output.domain_map, "d2")
    /\ DictGet(cat_output.domain_map, "d2") = "A"
    /\ DictGet(cat_output.classname_map, "c1") = "A"


(***************************************************************************)
(* Properties of the path helpers.                                         *)
(***************************************************************************)
\* s with one trailing occurrence of suffix taken off.
StripSuffix(s, suffix) ==
    IF Len(s) >= Len(suffix) /\ SubSeq(s, Len(s) - Len(suffix) + 1, Len(s)) = suffix
    THEN SubSeq(s, 1, Len(s) - Len(suffix))
    ELSE s

\* The segments of the input that are not empty.
NonEmptySegments == SelectSeq(path_input.segments, LAMBDA seg : seg # <<>>)

\* C13 -- class-name derivation: the empty segments and the first non-empty
\* segment are dropped; the result is none when nothing remains; otherwise
\* it is the remaining segments joined with dots, the last one with only a
\* trailing ".smali" taken off.
C13_ClassNameDerivation ==
    path_output.status = "returned" =>
        path_output.class_name =
            IF Len(NonEmptySegments) <= 1 THEN None
            ELSE LET rest == Tail(NonEmptySegments)
                 IN  Some(Join([rest EXCEPT ![Len(rest)] = StripSuffix(@, SmaliSuffix)], <<".">>))

\* The indices of the segments that are top-level-domain labels.
TldIndices == {i \in 1..Len(path_input.segments) : path_input.segments[i] \in original_tlds}

\* C14 -- inferred developer: the segment right after the first segment
\* that is a top-level-domain label, when there is such a segment and it has
\* a following one; none otherwise.
C14_InferredDeveloper ==
    path_output.status = "returned" =>
        path_output.developer =
            IF TldIndices # {} /\ Least(TldIndices) < Len(path_input.segments)
            THEN Some(path_input.segments[Least(TldIndices) + 1])
            ELSE None

\* C14 witness: the path "/com/net" holds two labels, the second right
\* after the first, and the second was returned.
C14_Witness ==
    /\ path_output.status = "returned"
    /\ path_input.segments = << <<>>, <<"c","o","m">>, <<"n","e","t">> >>
    /\ path_output.developer = Some(<<"n","e","t">>)


(***************************************************************************)
(* Properties of get_result_obj.                                           *)
(***************************************************************************)
\* C15 -- LimitMaterialize: of a grouped result with n rows the call
\* returns min(n, limit) records when limit > 0 and all n when limit <= 0;
\* total is the number of returned records and output_limit the requested
\* limit.
C15_LimitMaterialize ==
    lim_output.status = "returned" =>
        LET n == Len(lim_input.df)
            limit == lim_input.limit
            r == lim_output.value
        IN  /\ r.records # None
            /\ Len(r.records[1]) = IF limit > 0 THEN (IF n < limit THEN n ELSE limit) ELSE n
            /\ \A i \in 1..Len(r.records[1]) :
                  \E j \in 1..n : r.records[1][i] = lim_input.df[j]
            /\ r.total = Len(r.records[1])
            /\ r.output_limit = limit

\* C15 witness: a grouped result of three rows was cut to a limit of two,
\* and total is two.
C15_Witness ==
    /\ lim_output.status = "returned"
    /\ Len(lim_input.df) = 3 /\ lim_input.limit = 2
    /\ lim_output.value.total = 2

(***************************************************************************)
(* Properties of the analysis recipes and their driver.                    *)
(***************************************************************************)
\* The recipe a run names, "" when it names none.
RecipeOf(r) == GetAttr(an_call[r].task_name)

\* The run entered a recipe: the worker has an analysis configuration, the
\* name is a recipe's and every key of the mapping is one of its parameters.
EnteredRecipe(r) ==
    /\ an_call[r].analysis_config
    /\ RecipeOf(r) \in Recipes
    /\ DOMAIN an_call[r].task_arguments \subseteq RecipeParameters(RecipeOf(r))

\* The argument is not in the mapping, or is empty.
MissingOrEmpty(r, name, empty) ==
    \/ name \notin DOMAIN an_call[r].task_arguments
    \/ an_call[r].task_arguments[name] = empty

\* The run lacks the argument its recipe requires.
LacksRequired(r) ==
    \/ /\ RecipeOf(r) \in {"task_tracker_classname_scan", "task_tracker_domain_scan"}
       /\ MissingOrEmpty(r, "tracker_list_name", "")
    \/ /\ RecipeOf(r) \in {"task_text_search", "task_code_scan"}
       /\ MissingOrEmpty(r, "search_terms", <<>>)

\* Some partition of the store holds a row written in text mode.
StoreHasText == \E a \in AppIds : HasTextPartition(store[a])

\* C16: a run of tracker_classname_scan or tracker_domain_scan without a
\* catalog source name, or of text_search or code_scan without search
\* terms or with an empty list of them, has ended by returning an
\* APKAnalysisResult of total 0 and no records; it has not raised and has
\* not read the store.
C16_FailsClosed ==
    \A r \in Analysts :
        (EnteredRecipe(r) /\ LacksRequired(r)) =>
            /\ an_pc[r] = "done"
            /\ an_result[r].status = "returned"
            /\ an_result[r].dict = "__dict__"
            /\ an_result[r].value.total = 0
            /\ an_result[r].value.records = None
            /\ ~an_read[r]

\* C16 witness: over a store that holds text rows, one run of text_search
\* with an empty list of terms and one run of tracker_domain_scan without a
\* source name have both returned the empty result without reading.
C16_Witness ==
    /\ StoreHasText
    /\ RecipeOf("r1") = "task_text_search"
    /\ "search_terms" \in DOMAIN an_call["r1"].task_arguments
    /\ EnteredRecipe("r1") /\ LacksRequired("r1")
    /\ RecipeOf("r2") = "task_tracker_domain_scan"
    /\ EnteredRecipe("r2") /\ LacksRequired("r2")
    /\ \A r \in Analysts :
          /\ an_result[r].status = "returned"
          /\ an_result[r].value = EmptyAnalysisResult
          /\ ~an_read[r]

\* The run names no recipe although its name begins with "task_".
UnknownRecipe(r) ==
    /\ an_call[r].analysis_config
    /\ StartsWith(an_call[r].task_name, <<"t", "a", "s", "k", "_">>)
    /\ RecipeOf(r) \notin Recipes

\* The mapping holds a key that is no parameter of the recipe.
InvalidArguments(r) ==
    /\ an_call[r].analysis_config
    /\ RecipeOf(r) \in Recipes
    /\ ~(DOMAIN an_call[r].task_arguments \subseteq RecipeParameters(RecipeOf(r)))

\* The run returned an empty result: the driver's empty dict, or an
\* APKAnalysisResult without records.
ReturnedEmpty(r) ==
    /\ an_result[r].status = "returned"
    /\ an_result[r].value.total = 0
    /\ an_result[r].value.records = None

\* C17: a run of analyse_apks with an unknown recipe name, with a mapping
\* that holds an invalid argument, or without the argument its recipe
\* requires, ends by returning an empty result and never by raising.
C17_DriverNeverRaises ==
    \A r \in Analysts :
        (an_pc[r] = "done"
            /\ (UnknownRecipe(r) \/ InvalidArguments(r)
                  \/ (EnteredRecipe(r) /\ LacksRequired(r)))) =>
            ReturnedEmpty(r)

\* The run read the store and returned a result.
ReturnedResult(r) ==
    an_pc[r] = "done" /\ an_read[r] /\ an_result[r].status = "returned"

\* The rows of the run's recipe that survive its filters, over the store.
Survivors(r) ==
    RecipeRows(RecipeOf(r), an_call[r].task_arguments,
               ReadParquets(store, Arg(an_call[r].task_arguments, "app_parquet_basenames",
                                       DefaultBasenames)).df).df

\* The application-version identity of a row or of a record.
IdentityOf(x) == <<x.app_id, x.version_name, x.version_code, x.apk_sha256>>

\* The identities that have a surviving row.
SurvivingIdentities(r) == {IdentityOf(Survivors(r)[i]) : i \in 1..Len(Survivors(r))}

\* The records of the run's result.
RecordsOf(r) == an_result[r].value.records[1]

\* The number of records of the result that carry an identity.
RecordCount(r, id) ==
    Cardinality({i \in 1..Len(RecordsOf(r)) : IdentityOf(RecordsOf(r)[i]) = id})

\* A record holds the aggregates of the surviving rows of its identity, of
\* all of them and of no others.
Unmixed(r, record) ==
    LET own == SelectSeq(Survivors(r), LAMBDA row : IdentityOf(row) = IdentityOf(record))
        aggregators == RecipeAggregators(RecipeOf(r), an_call[r].task_arguments)
    IN  /\ own # <<>>
        /\ \A j \in 1..Len(aggregators) :
              record[aggregators[j].alias] = Aggregate(own, aggregators[j])

\* C18 as stated: the result of a recipe holds exactly one record for every
\* identity (app_id, version_name, version_code, apk_sha256) that has a
\* surviving row, and each record is made of the rows of its identity alone.
C18_OneRecordPerIdentity ==
    \A r \in Analysts :
        ReturnedResult(r) =>
            /\ \A id \in SurvivingIdentities(r) : RecordCount(r, id) = 1
            /\ \A i \in 1..Len(RecordsOf(r)) : Unmixed(r, RecordsOf(r)[i])

\* C18 amended: the result holds at most one record for an identity, every
\* record is made of all the surviving rows of its identity and of no
\* others, and the identities with a record are all those with a surviving
\* row when the limit is not positive or not below their number, and as
\* many of them as the limit otherwise.
C18_OneRecordPerIdentityWithinLimit ==
    \A r \in Analysts :
        ReturnedResult(r) =>
            LET limit == Arg(an_call[r].task_arguments, "limit", DefaultLimit)
                n == Cardinality(SurvivingIdentities(r))
            IN  /\ \A id \in SurvivingIdentities(r) : RecordCount(r, id) <= 1
                /\ \A i \in 1..Len(RecordsOf(r)) : Unmixed(r, RecordsOf(r)[i])
                /\ Len(RecordsOf(r)) = IF limit > 0 /\ limit < n THEN limit ELSE n

\* C18 witness: a text_search whose surviving rows are of p1 and p2, two
\* identities that differ in the fingerprint alone, returned one record
\* for each, with the path of its own file.
C18_Witness ==
    /\ ReturnedResult("r1")
    /\ RecipeOf("r1") = "task_text_search"
    /\ SurvivingIdentities("r1") = {<<"com.a", "1.0", 1, "h1">>, <<"com.a", "1.0", 1, "h2">>}
    /\ Len(RecordsOf("r1")) = 2
    /\ \E i \in 1..2 :
          /\ IdentityOf(RecordsOf("r1")[i]) = <<"com.a", "1.0", 1, "h2">>
          /\ RecordsOf("r1")[i].paths = {TextPath}

\* The rows of the store that a run reads.
RowsRead(r) ==
    ReadParquets(store, Arg(an_call[r].task_arguments, "app_parquet_basenames",
                            DefaultBasenames)).df

\* The permission lines of a manifest text: those that hold "permission "
\* and " android:name=\"".
PermissionLines(text) ==
    SelectSeq(Split(text, <<"LF">>), LAMBDA line :
        /\ Contains(line, <<"p","e","r","m","i","s","s","i","o","n"," ">>)
        /\ Contains(line, <<" ","a","n","d","r","o","i","d",":","n","a","m","e","=","\"">>))

\* The names extracted from the permission lines of the manifests of an
\* identity, among the rows read.
ExtractedNames(r, id) ==
    LET manifests == SelectSeq(RowsRead(r), LAMBDA row :
                         row.relative_path = ManifestPath /\ IdentityOf(row) = id)
    IN  ChainFromIterable(
            [i \in 1..Len(manifests) |->
                LET lines == PermissionLines(manifests[i].content_text[1])
                IN  [k \in 1..Len(lines) |-> RegexpExtractPermission(lines[k])]])

\* The permission catalog's value for a name that is a key, "unidentified"
\* for any other.
CatalogLevel(name) ==
    IF \E i \in 1..Len(PermissionProtectionLevelMap) :
           PermissionProtectionLevelMap[i].key = name
    THEN PermissionProtectionLevelMap[
             CHOOSE i \in 1..Len(PermissionProtectionLevelMap) :
                 PermissionProtectionLevelMap[i].key = name].value
    ELSE "unidentified"

\* How often x occurs in a sequence.
Occurrences(s, x) == Cardinality({i \in 1..Len(s) : s[i] = x})

\* The identities of the rows read.
IdentitiesRead(r) == {IdentityOf(RowsRead(r)[i]) : i \in 1..Len(RowsRead(r))}

\* C19: in a run of permission_scan, every committed version whose
\* manifest has a permission line has one grouped record; its permissions
\* are the names extracted from those lines, each as often as it was
\* extracted; protection_levels has the same length and holds, at the place
\* of each permission, the catalog's value when the name is a key of the
\* catalog and "unidentified" when it is not; the records returned are
\* grouped records.
C19_PermissionScan ==
    \A r \in Analysts :
        (ReturnedResult(r) /\ RecipeOf(r) = "task_permission_scan") =>
            LET grouped == an_result[r].grouped
            IN  /\ \A id \in IdentitiesRead(r) :
                      Cardinality({g \in 1..Len(grouped) : IdentityOf(grouped[g]) = id})
                          = IF ExtractedNames(r, id) # <<>> THEN 1 ELSE 0
                /\ \A g \in 1..Len(grouped) :
                      LET names == ExtractedNames(r, IdentityOf(grouped[g]))
                          permissions == grouped[g].permissions
                          levels == grouped[g].protection_levels
                      IN  /\ Len(permissions) = Len(names)
                          /\ \A k \in 1..Len(names) :
                                Occurrences(permissions, names[k]) = Occurrences(names, names[k])
                          /\ Len(levels) = Len(permissions)
                          /\ \A k \in 1..Len(permissions) :
                                levels[k] = CatalogLevel(permissions[k])
                /\ \A i \in 1..Len(RecordsOf(r)) :
                      \E g \in 1..Len(grouped) : RecordsOf(r)[i] = grouped[g]

\* C19 witness: permission_scan over a store that holds p1 returned the
\* record of p1 with permissions p.CAM (a key of the catalog) and p.X (no
\* key), and protection levels dangerous and unidentified.
C19_Witness ==
    /\ ReturnedResult("r1")
    /\ RecipeOf("r1") = "task_permission_scan"
    /\ \E i \in 1..Len(RecordsOf("r1")) :
          /\ IdentityOf(RecordsOf("r1")[i]) = <<"com.a", "1.0", 1, "h1">>
          /\ RecordsOf("r1")[i].permissions = <<<<"p",".","C","A","M">>, <<"p",".","X">>>>
          /\ RecordsOf("r1")[i].protection_levels = <<"dangerous", "unidentified">>

\* C20: analysis is read-only.  Every step of every run of analyse_apks,
\* whatever the recipe and its arguments and whatever the other run is
\* doing, leaves the store as it was: every partition and every row of it.
C20_ReadOnly == [][store' = store]_vars

\* C20 witness: two runs of different recipes have both read a store that
\* holds the three packages, and the store holds them still.
C20_Witness ==
    /\ \A r \in Analysts : ReturnedResult(r)
    /\ RecipeOf("r1") = "task_permission_scan"
    /\ RecipeOf("r2") = "task_code_scan"
    /\ store = CommitAll([a \in AppIds |-> Absent], <<"p2", "p3", "p1">>)

\* The catalog a tracker scan selects.
SelectedCatalog(r) == LoadTrackerList(an_call[r].task_arguments["tracker_list_name"])

\* The names of the trackers of the selected catalog, as a scan reports them.
CatalogNames(r) == {<<SelectedCatalog(r)[t].name>> : t \in 1..Len(SelectedCatalog(r))}

\* The .smali rows of an identity among the rows read, each with the class
\* name derived from its path.
ClassRowsRead(r, id) ==
    SelectSeq(AddColumnClassName(FilterByExtension(RowsRead(r), <<<<"s","m","a","l","i">>>>)),
              LAMBDA row : IdentityOf(row) = id /\ row.class_name # None)

\* What the matcher finds for a value among the keys of a catalog map.
Found(value, map) == IdentifyMatchingCriterion(value, DictKeys(map), TRUE).value

\* The tracker names the claim expects for an identity: for every .smali
\* row for whose class name the matcher finds a signature, the name the
\* classname catalog maps that signature to.
ExpectedClassTrackers(r, id) ==
    LET map == GetClassnameToTrackerMap(SelectedCatalog(r))
        rows == ClassRowsRead(r, id)
    IN  { <<DictGet(map, Found(rows[i].class_name[1], map)[1])>> :
              i \in {j \in 1..Len(rows) : Found(rows[j].class_name[1], map) # None} }

\* The grouped records of an identity.
GroupedOf(r, id) == {g \in 1..Len(an_result[r].grouped) : IdentityOf(an_result[r].grouped[g]) = id}

\* C21 as stated: in a run of tracker_classname_scan, a .smali file is
\* retained exactly when the matcher finds a catalog signature for its class
\* name, so a version has a grouped record exactly when it has such a file
\* and the record's trackers are the catalog's names of the signatures
\* matched; no name outside the selected catalog is reported.
C21_ClassnameScan ==
    \A r \in Analysts :
        (ReturnedResult(r) /\ RecipeOf(r) = "task_tracker_classname_scan") =>
            /\ \A id \in IdentitiesRead(r) :
                  Cardinality(GroupedOf(r, id)) = IF ExpectedClassTrackers(r, id) # {} THEN 1 ELSE 0
            /\ \A g \in 1..Len(an_result[r].grouped) :
                  /\ an_result[r].grouped[g].trackers
                        = ExpectedClassTrackers(r, IdentityOf(an_result[r].grouped[g]))
                  /\ an_result[r].grouped[g].trackers \subseteq CatalogNames(r)

\* The lines of the .smali rows of an identity among the rows read.
SmaliLinesRead(r, id) ==
    LET rows == SelectSeq(FilterByExtension(RowsRead(r), <<<<"s","m","a","l","i">>>>),
                          LAMBDA row : IdentityOf(row) = id)
    IN  ChainFromIterable([i \in 1..Len(rows) |-> Split(rows[i].content_text[1], <<"LF">>)])

\* The line holds "const-string" and "http", and holds a domain of the
\* catalog map when the case of letters is set aside on both sides.
HoldsCatalogDomain(line, map) ==
    /\ Contains(line, <<"c","o","n","s","t","-","s","t","r","i","n","g">>)
    /\ Contains(line, <<"h","t","t","p">>)
    /\ \E k \in 1..Len(map) : Contains(Lower(line), Lower(map[k].key))

\* C22 as stated: in a run of tracker_domain_scan, every .smali line that
\* holds const-string and http and, compared without regard to case, a
\* domain of the selected catalog is among the lines of the record of its
\* version, and the record's trackers hold the name the domain catalog maps
\* the matched domain to.
C22_DomainScan ==
    \A r \in Analysts :
        (ReturnedResult(r) /\ RecipeOf(r) = "task_tracker_domain_scan") =>
            LET map == GetDomainToTrackerMap(SelectedCatalog(r))
            IN  \A id \in IdentitiesRead(r) :
                    \A k \in 1..Len(SmaliLinesRead(r, id)) :
                        LET line == SmaliLinesRead(r, id)[k]
                        IN  HoldsCatalogDomain(line, map) =>
                                \E g \in GroupedOf(r, id) :
                                    /\ \E n \in 1..Len(an_result[r].grouped[g].lines) :
                                          an_result[r].grouped[g].lines[n] = line
                                    /\ <<DictGet(map, Found(line, map)[1])>>
                                          \in an_result[r].grouped[g].trackers

\* The content holds the term: as written when the search is case-sensitive,
\* with both sides folded when it is not.
HoldsTerm(content, term, case_sensitive) ==
    IF case_sensitive THEN Contains(content, term)
    ELSE Contains(Lower(content), Lower(term))

\* The text rows of an identity, among the rows read, whose content holds
\* every one of the run's search terms.
RowsHoldingTerms(r, id) ==
    LET terms == an_call[r].task_arguments["search_terms"]
        case_sensitive == Arg(an_call[r].task_arguments, "case_sensitive", FALSE)
    IN  SelectSeq(RowsRead(r), LAMBDA row :
            /\ IdentityOf(row) = id
            /\ \A t \in 1..Len(terms) : HoldsTerm(row.content_text[1], terms[t], case_sensitive))

\* The row passes the run's extension and filename arguments: when
\* extensions is not empty the row's extension is one of them, letter case
\* set aside, and when filename is not empty the row's relative path holds
\* it, compared as the terms are.
PassesOptionalFilters(r, row) ==
    LET extensions == Arg(an_call[r].task_arguments, "extensions", <<>>)
        filename == Arg(an_call[r].task_arguments, "filename", <<>>)
        case_sensitive == Arg(an_call[r].task_arguments, "case_sensitive", FALSE)
    IN  /\ Len(extensions) > 0 =>
              \E e \in 1..Len(extensions) : Lower(row.extension) = Lower(extensions[e])
        /\ Len(filename) > 0 => HoldsTerm(row.relative_path, filename, case_sensitive)

\* The relative paths of a sequence of rows.
PathsOfRows(rows) == {rows[i].relative_path : i \in 1..Len(rows)}

\* A run of text_search has one grouped record, with the given paths, for
\* every identity read that has such paths, and none for the others; the
\* records returned are grouped records.
TextSearchReturns(r, Paths(_)) ==
    /\ \A id \in IdentitiesRead(r) :
          Cardinality(GroupedOf(r, id)) = IF Paths(id) # {} THEN 1 ELSE 0
    /\ \A g \in 1..Len(an_result[r].grouped) :
          an_result[r].grouped[g].paths = Paths(IdentityOf(an_result[r].grouped[g]))
    /\ \A i \in 1..Len(RecordsOf(r)) :
          \E g \in 1..Len(an_result[r].grouped) : RecordsOf(r)[i] = an_result[r].grouped[g]

\* C23 as stated: text_search returns, for every app version, exactly the
\* relative paths of the text rows whose content holds every search term,
\* compared as written when case_sensitive is true and with both sides
\* folded when it is false.
C23_TextSearch ==
    \A r \in Analysts :
        (ReturnedResult(r) /\ RecipeOf(r) = "task_text_search") =>
            TextSearchReturns(r, LAMBDA id : PathsOfRows(RowsHoldingTerms(r, id)))

\* C23 amended: the paths are those of the text rows that hold every search
\* term and that pass the extension and filename arguments when these are
\* given.
C23_TextSearchWithinFilters ==
    \A r \in Analysts :
        (ReturnedResult(r) /\ RecipeOf(r) = "task_text_search") =>
            TextSearchReturns(r, LAMBDA id :
                PathsOfRows(SelectSeq(RowsHoldingTerms(r, id),
                                      LAMBDA row : PassesOptionalFilters(r, row))))

\* C23 witness: a case-insensitive search for "Camera" and a search for
\* "const" and "camera" over the three packages.  The first returned the
\* class of p1 (which holds "Camera") and the text file of p2 (which holds
\* "camera"); the second returned the class of p1 and no record for p2,
\* whose text file holds one of the two terms only.
C23_Witness ==
    /\ \A r \in Analysts : ReturnedResult(r) /\ RecipeOf(r) = "task_text_search"
    /\ an_call["r1"].task_arguments = ("search_terms" :> <<TermCapitalCamera>>)
    /\ an_call["r2"].task_arguments = ("search_terms" :> <<TermConst, TermCamera>>)
    /\ \E g \in GroupedOf("r1", <<"com.a", "1.0", 1, "h1">>) :
          an_result["r1"].grouped[g].paths = {SmaliPathM}
    /\ \E g \in GroupedOf("r1", <<"com.a", "1.0", 1, "h2">>) :
          an_result["r1"].grouped[g].paths = {TextPath}
    /\ \E g \in GroupedOf("r2", <<"com.a", "1.0", 1, "h1">>) :
          an_result["r2"].grouped[g].paths = {SmaliPathM}
    /\ GroupedOf("r2", <<"com.a", "1.0", 1, "h2">>) = {}

\* "https://", "http://"
BareHttps == <<"h","t","t","p","s",":","/","/">>
BareHttp == <<"h","t","t","p",":","/","/">>

\* The line, the url and the domain of the example.
ExampleLine ==
    <<"c","o","n","s","t","-","s","t","r","i","n","g"," ","v","0",","," ","\"","h","t","t","p",
      "s",":","/","/","a","d","s",".","e","x","a","m","p","l","e",".","c","o","m","/","x","\"">>
ExampleUrl == <<"h","t","t","p","s",":","/","/","a","d","s",".","e","x","a","m","p","l","e",".","c","o",
      "m","/","x">>
ExampleDomain == <<"a","d","s",".","e","x","a","m","p","l","e",".","c","o","m">>

\* The shape of a fully qualified domain name: lower-case letters, digits,
\* hyphens and dots; two labels or more, each of at most 63 characters that
\* begins and ends with a letter or a digit; the last of two or more.
FqdnShape(domain) ==
    /\ Len(domain) >= 2
    /\ \A i \in 1..Len(domain) : domain[i] \in LowerAlnum \cup {"-", "."}
    /\ \E i \in 1..Len(domain) : domain[i] = "."
    /\ domain[1] \in LowerAlnum /\ domain[Len(domain)] \in LowerAlnum
    /\ domain[Len(domain) - 1] # "."
    /\ \A i \in 2..(Len(domain) - 1) :
          domain[i] = "." => (domain[i - 1] \in LowerAlnum /\ domain[i + 1] \in LowerAlnum)
    /\ \A i \in 1..(Len(domain) - 63) : \E j \in i..(i + 63) : domain[j] = "."

\* C24: in a run of url_extraction no grouped record holds the url
\* "https://" or "http://"; every domain a record holds has, with its
\* letters folded to lower case, the shape of a fully qualified domain
\* name; and the record of a version one of whose .smali files has the
\* line const-string v0, "https://ads.example.com/x" holds the url
\* https://ads.example.com/x, the domain ads.example.com and that line.
C24_UrlExtraction ==
    \A r \in Analysts :
        (ReturnedResult(r) /\ RecipeOf(r) = "task_url_extraction") =>
            /\ \A g \in 1..Len(an_result[r].grouped) :
                  /\ BareHttps \notin an_result[r].grouped[g].urls
                  /\ BareHttp \notin an_result[r].grouped[g].urls
                  /\ \A domain \in an_result[r].grouped[g].domains : FqdnShape(Lower(domain))
            /\ \A id \in IdentitiesRead(r) :
                  (\E k \in 1..Len(SmaliLinesRead(r, id)) : SmaliLinesRead(r, id)[k] = ExampleLine) =>
                      \E g \in GroupedOf(r, id) :
                          /\ ExampleUrl \in an_result[r].grouped[g].urls
                          /\ ExampleDomain \in an_result[r].grouped[g].domains
                          /\ \E n \in 1..Len(an_result[r].grouped[g].lines) :
                                an_result[r].grouped[g].lines[n] = ExampleLine

\* C24 witness: url_extraction over the store that holds p3, whose class
\* has the example line, a line with the bare url "http://", a line whose
\* url has no path and a line whose domain is in capitals, returned one
\* record: the url and the domain of the example, and nothing of the other
\* three lines.
C24_Witness ==
    /\ ReturnedResult("r1")
    /\ RecipeOf("r1") = "task_url_extraction"
    /\ \E k \in 1..Len(SmaliLinesRead("r1", <<"com.b", "2.0", 2, "h3">>)) :
          Contains(SmaliLinesRead("r1", <<"com.b", "2.0", 2, "h3">>)[k], BareHttp)
             /\ RegexpExtractUrl(SmaliLinesRead("r1", <<"com.b", "2.0", 2, "h3">>)[k]) = BareHttp
    /\ \E i \in 1..Len(RecordsOf("r1")) :
          /\ IdentityOf(RecordsOf("r1")[i]) = <<"com.b", "2.0", 2, "h3">>
          /\ RecordsOf("r1")[i].urls = {ExampleUrl}
          /\ RecordsOf("r1")[i].domains = {ExampleDomain}
          /\ RecordsOf("r1")[i].lines = <<ExampleLine>>

(***************************************************************************)
(* Properties of the fan-out.                                              *)
(***************************************************************************)
\* The record read_apk_content_file gives for a file of the walk.
RecordOf(file) == ReadApkContentFile(file.filename, ExtractedRoot, file.bytes)

\* C25: when get_apk_content_file_list has ended over an extraction root,
\* whatever the order in which the processes of the pool took the tasks and
\* put their results, it returned (no file of the root raising) a list of
\* as many records as the walk enumerated files, whose set is the set of
\* the records of these files, one record for each file.
C25_FanOutOrderIndependent ==
    (fl_pc = "done" /\ fl_input.exists) =>
        LET files == fl_input.files
            list == fl_output.value
        IN  IF \E i \in 1..Len(files) : RecordOf(files[i]).raised
            THEN fl_output.status = "raised"
            ELSE /\ fl_output.status = "returned"
                 /\ Len(list) = Len(files)
                 /\ {list[i] : i \in 1..Len(list)}
                        = {RecordOf(files[i]).value[1] : i \in 1..Len(files)}
                 /\ \A i \in 1..Len(files) :
                       Cardinality({j \in 1..Len(list) :
                                        list[j] = RecordOf(files[i]).value[1]}) = 1

\* C25 witness: over a root of three files the task of the third file was
\* the first to put its result and the task of the first file the last,
\* and the call returned the three records.
C25_Witness ==
    /\ fl_pc = "done"
    /\ fl_output.status = "returned"
    /\ Len(fl_input.files) = 3
    /\ Len(fl_output.value) = 3
    /\ [i \in 1..3 |-> fl_outqueue[i].task] = <<3, 2, 1>>

(***************************************************************************)
(* Properties of the worker.                                               *)
(***************************************************************************)
\* The callback thread is handling a PendingTasks message: it is in the
\* loop of method_pending_tasks, or in the send of TakeupTasks.
HandlingPendingTasks ==
    wk_hub.pc = "pending" \/ (wk_hub.pc = "send" /\ wk_hub.method = "TakeupTasks")

\* The action of the pending task of the message that has the given id.
PendingAction(id) ==
    wk_hub.list[CHOOSE k \in 1..Len(wk_hub.list) : wk_hub.list[k].Id = id].Action

\* The number of task ids selected so far whose action is a.
SelectedFor(a) ==
    Cardinality({k \in 1..Len(wk_hub.takeup) : PendingAction(wk_hub.takeup[k]) = a})

\* C26: while one PendingTasks message is handled, the number of task ids
\* selected for a supported action plus the size of the queue of that
\* action is at most twice the action's max_threads; every id selected is
\* the id of a pending task of the message whose action is supported; and
\* TakeupTasks is sent only with a task id selected.
C26_SoftQueueLimit ==
    HandlingPendingTasks =>
        /\ \A a \in SupportedActions :
              SelectedFor(a) + Len(wk_queue[a]) <= 2 * GetActionInfoByName(a).max_threads
        /\ \A k \in 1..Len(wk_hub.takeup) :
              /\ \E j \in 1..Len(wk_hub.list) : wk_hub.list[j].Id = wk_hub.takeup[k]
              /\ PendingAction(wk_hub.takeup[k]) \in SupportedActions
        /\ (wk_hub.pc = "send" /\ wk_hub.method = "TakeupTasks") => Len(wk_hub.takeup) > 0

\* C26 witness: TakeupTasks is being sent for a message of three pending
\* convert_and_move_apk tasks, one analyse_apks task and one task of an
\* unsupported action, while the queue of convert_and_move_apk holds one
\* task: one of the three and the analyse_apks task were selected.
C26_Witness ==
    /\ wk_hub.pc = "send" /\ wk_hub.method = "TakeupTasks"
    /\ Len(wk_hub.list) = 5
    /\ Len(wk_queue["convert_and_move_apk"]) = 1
    /\ wk_hub.takeup = <<"p1", "p5">>

\* C27: every task that AssignTask has put on the queue of a supported
\* action is in the end taken off it and completed by one CompleteTask
\* message, whatever its argument string and however its op ends; and no
\* task is ever completed twice.  (A thread stopped by a failing task
\* would leave the later tasks of its action uncompleted.)
C27_EveryTaskCompleted ==
    /\ \A t \in 1..Len(TaskIds) :
          wk_task[t].enqueued ~> (wk_task[t].dequeued /\ Len(wk_task[t].completes) = 1)
    /\ [](\A t \in 1..Len(TaskIds) : Len(wk_task[t].completes) <= 1)

\* A daemon thread counts as busy from the write of its increment of
\* busy_threads to the write of its decrement (a thread that a task has
\* stopped stays busy).
BusyThread(th) ==
    wk_thread[th].pc \in {"run", "op", "lock", "send", "dec_read", "dec_write", "ended"}

\* C28: in every reachable state busy_threads is the number of daemon
\* threads that have taken a task and not yet finished it, and so lies
\* between 0 and the number of daemon threads.
C28_BusyThreads ==
    /\ wk_busy = Cardinality({th \in DaemonThreads : BusyThread(th)})
    /\ 0 <= wk_busy
    /\ wk_busy <= Cardinality(DaemonThreads)

\* The number of threads that are inside hub.send: daemon threads, and the
\* callback thread.
InsideHubSend ==
    Cardinality({th \in DaemonThreads : wk_thread[th].pc = "send"})
        + (IF wk_hub.pc \in {"send", "send_locked"} THEN 1 ELSE 0)

\* C29: at no time are two threads inside hub.send, be they daemon threads
\* sending CompleteTask or the callback thread sending RegisterWorker,
\* GetPendingTasks, TakeupTasks or CompleteTask.
C29_SendsExclusive == InsideHubSend <= 1

\* The tasks of an action that some daemon thread is executing: the thread
\* is inside run_task (lines 87, 95-131) with the task it dequeued.
ExecutingTasks(a) ==
    {k \in 1..Len(TaskIds) :
        /\ wk_task[k].assigned
        /\ wk_task[k].action = a
        /\ \E th \in DaemonThreads :
              /\ wk_thread[th].task = TaskIds[k]
              /\ wk_thread[th].pc \in {"run", "op", "lock", "send"}}

\* C30: at most max_threads tasks of one action are executing at any time;
\* max_threads being 1 for convert_and_move_apk, no two of its tasks are
\* ever executing at once.
C30_MaxThreadsPerAction ==
    /\ \A a \in SupportedActions :
          Cardinality(ExecutingTasks(a)) <= GetActionInfoByName(a).max_threads
    /\ Cardinality(ExecutingTasks("convert_and_move_apk")) <= 1

\* Tasks of two actions inside their ops at once, and a task of
\* convert_and_move_apk inside its op while another one waits in the queue.
C30_Witness ==
    \E th1, th2 \in DaemonThreads :
        /\ th1[1] = "convert_and_move_apk" /\ wk_thread[th1].pc = "op"
        /\ th2[1] = "analyse_apks" /\ wk_thread[th2].pc = "op"

C30_QueuedBehind ==
    /\ ExecutingTasks("convert_and_move_apk") # {}
    /\ wk_queue["convert_and_move_apk"] # <<>>

\* C31: whenever a daemon thread dequeues a task, the task comes from the
\* queue of the thread's action and its priority value is the smallest of
\* all the tasks in that queue at that moment.
C31_PriorityOrder ==
    [][\A th \in DaemonThreads :
          (wk_thread[th].pc = "get" /\ wk_thread'[th].pc # "get") =>
              /\ \E j \in 1..Len(wk_queue[th[1]]) :
                    wk_queue[th[1]][j].task_id = wk_thread'[th].task
              /\ \A j \in 1..Len(wk_queue[th[1]]) :
                    wk_task[TaskRank(wk_thread'[th].task)].priority
                        <= wk_queue[th[1]][j].priority]_vars

\* The task assigned second was taken first, the task assigned first
\* waiting in the same queue with a larger priority value.
C31_Witness ==
    \E th \in DaemonThreads :
        /\ wk_thread[th].pc = "inc_read"
        /\ wk_thread[th].task = TaskIds[2]
        /\ \E j \in 1..Len(wk_queue[th[1]]) :
              /\ wk_queue[th[1]][j].task_id = TaskIds[1]
              /\ wk_queue[th[1]][j].priority > wk_task[2].priority

\* The task is no longer with a daemon thread that is inside run_task.
LeftRunTask(k) ==
    /\ wk_task[k].dequeued
    /\ \A th \in DaemonThreads :
          wk_thread[th].task = TaskIds[k] =>
              wk_thread[th].pc \in {"dec_read", "dec_write"}

\* C32: a CompleteTask with a null error is sent for a task only after its
\* op returned and the upload of its result answered 200; a task whose op
\* raised, or whose upload failed or answered another status, is completed
\* with an error message and never with a null error.
C32_SuccessAfterUpload ==
    \A k \in 1..Len(TaskIds) :
        /\ \A i \in 1..Len(wk_task[k].completes) :
              wk_task[k].completes[i] = "null" =>
                  wk_task[k].op = "returned" /\ wk_task[k].upload = "200"
        /\ (wk_task[k].op = "raised"
               \/ (wk_task[k].op = "returned" /\ wk_task[k].upload # "200")) =>
              /\ \A i \in 1..Len(wk_task[k].completes) : wk_task[k].completes[i] # "null"
              /\ LeftRunTask(k) => Len(wk_task[k].completes) = 1

\* One task completed with a null error after an upload answered 200,
\* another one completed with an error after its upload answered 500.
C32_Witness ==
    /\ wk_task[1].op = "returned" /\ wk_task[1].upload = "200"
    /\ wk_task[1].completes = <<"null">>
    /\ wk_task[2].op = "returned" /\ wk_task[2].upload = "500"
    /\ wk_task[2].completes = <<"Result upload error">>

\* The task was assigned with an action that is not supported.
Unsupported(k) == wk_task[k].assigned /\ wk_task[k].action \notin SupportedActions

\* The arguments of the task were parsed and lack a required parameter of
\* its action.
LacksParameter(k) ==
    /\ wk_task[k].assigned
    /\ wk_task[k].action \in SupportedActions
    /\ ~JsonLoads(wk_task[k].arguments).raised
    /\ ~(GetActionInfoByName(wk_task[k].action).required_parameters
            \subseteq JsonLoads(wk_task[k].arguments).keys)

\* No queue holds the task and no daemon thread has it.
NeverQueued(k) ==
    /\ ~wk_task[k].enqueued /\ ~wk_task[k].dequeued
    /\ \A a \in SupportedActions :
          \A j \in 1..Len(wk_queue[a]) : wk_queue[a][j].task_id # TaskIds[k]
    /\ \A th \in DaemonThreads : wk_thread[th].task # TaskIds[k]

\* A refused task is answered with one CompleteTask that carries an error
\* message, sent by the time the handler of AssignTask has returned.
RefusedWithError(k) ==
    /\ NeverQueued(k)
    /\ wk_task[k].op = "none"
    /\ \A i \in 1..Len(wk_task[k].completes) : wk_task[k].completes[i] # "null"
    /\ Len(wk_task[k].completes) = (IF wk_hub.task = TaskIds[k] THEN 0 ELSE 1)

\* The daemon thread that took the task is through with run_task, by a
\* return or by an exception.
RunTaskOver(k) ==
    /\ wk_task[k].dequeued
    /\ \A th \in DaemonThreads :
          wk_thread[th].task = TaskIds[k] =>
              wk_thread[th].pc \in {"dec_read", "dec_write", "ended"}

\* The op of the task is never invoked, and run_task ends with one
\* CompleteTask that carries an error message.
ErrorWithoutOp(k) ==
    /\ wk_task[k].op = "none"
    /\ \A i \in 1..Len(wk_task[k].completes) : wk_task[k].completes[i] # "null"
    /\ RunTaskOver(k) => Len(wk_task[k].completes) = 1

\* The handler of AssignTask leaves the queues alone when it refuses a task.
RefusalKeepsQueues ==
    (\E k \in 1..Len(TaskIds) : ~wk_task[k].assigned /\ Unsupported(k)')
        => wk_queue' = wk_queue

\* C33: a task assigned with an unsupported action is never enqueued and
\* never run, AssignTask answers it with one CompleteTask carrying an error
\* message and leaves all queues unchanged; a task whose arguments lack a
\* required parameter of its action is completed with an error without the
\* op being invoked.
C33_RefusedOrMissing ==
    /\ [](\A k \in 1..Len(TaskIds) :
            /\ Unsupported(k) => RefusedWithError(k)
            /\ LacksParameter(k) => ErrorWithoutOp(k))
    /\ [][RefusalKeepsQueues]_vars

(***************************************************************************)
(* Properties of the move to the archive and of the frame of a commit.     *)
(***************************************************************************)
\* The step ends the call convert_and_move_apk of caller c with an error of
\* the extraction, of the descriptor or of the commit.
FailsBeforeMove(c) ==
    /\ pc[c] \in {"idle", "check"} /\ pc'[c] = "done"
    /\ call'[c].op = "convert_and_move_apk"
    /\ result'[c] \in {"APK extraction failed", "DescriptorError", "SchemaError",
                       "DuplicatePackageError"}

\* The step of caller c takes an APK file out of the buffer or puts one in
\* the archive.
Moves(c) == pc[c] # pc'[c] /\ (buffer' # buffer \/ archive' # archive)

\* A failure leaves the buffer and the archive as they were, with the APK
\* file of the call in the buffer; a move comes after the commit of the
\* call.
MoveOnlyAfterCommit ==
    \A c \in Callers :
        /\ FailsBeforeMove(c) =>
              /\ buffer' = buffer /\ archive' = archive
              /\ ~wrote'[c]
              /\ pc[c] = "check" => call[c].apk \in buffer'
        /\ Moves(c) =>
              /\ call[c].op = "convert_and_move_apk" /\ wrote[c]
              /\ buffer' = buffer \ {call[c].apk}
              /\ archive' = archive \cup {ArchivePath(call[c].apk_basicinfo)}

\* C34: convert_and_move_apk moves the APK file to the archive only after
\* the commit of the package succeeded; when the extraction, the
\* descriptor or the commit fails, the file is still in the buffer and the
\* archive got nothing; and a call that has moved the file returns its
\* conversion info, not an error.
C34_MoveAfterCommit ==
    [][/\ MoveOnlyAfterCommit
       /\ \A c \in Callers : Moves(c) => result'[c] = "ok"]_vars

\* C35: a step of a commit for app_id A, Append or Overwrite, successful or
\* failed, leaves the partition of every other app_id as it was.
C35_CommitFrame ==
    [][\A c \in Callers :
          (pc[c] \in {"check", "write"} /\ pc'[c] # pc[c]) =>
              \A b \in AppIds \ {call[c].apk_basicinfo.app_id} : store'[b] = store[b]]_vars

\* An Overwrite of one app_id has removed what its partition held and
\* written its rows, next to the partition of another app_id that holds
\* rows.
C35_Witness ==
    \E c \in Callers, b \in AppIds :
        /\ ~call[c].append_if_exists /\ wrote[c] /\ pc[c] = "done"
        /\ b # call[c].apk_basicinfo.app_id
        /\ store[b].exists /\ store[b].batches # <<>>
        /\ Len(store[call[c].apk_basicinfo.app_id].batches) = 1

=============================================================================
